---- MODULE Spec2Model ----
(***************************************************************************)
(* Model of agent_lib's reactive store: Store (snapshot -> handler ->      *)
(* scope-filtered diff -> notify), its subscriber list, the two-phase      *)
(* async actions, and the fanout coordinator layered on the subscriber     *)
(* list.                                                                   *)
(*                                                                         *)
(* Strings that the code inspects character by character (scope paths,     *)
(* normalized diff paths) are sequences of one-character strings, so that  *)
(* str.startswith is computed as Python computes it.                       *)
(***************************************************************************)
EXTENDS Naturals, Integers, Sequences, FiniteSets, TLC

VARIABLES
    tree,         \* the store's state attributes: leaf path -> value
    subscribers,  \* Store._subscribers: list of callbacks, in subscription order
    handles,      \* unsubscribe closures handed out by subscribe, per callback
    inflight,     \* dispatchAsync calls suspended in their read phase
    last,         \* what the caller and the callbacks observed of the last call
    rounds,       \* notification rounds run since the subscriber list last changed
    seen,         \* per callback: its invocations since the list last changed
    registry,     \* Fanouts.registry: active fanout id -> registration
    resolvers,    \* resolver closures handed out by make_resolver: the ids they
                  \* capture, the creation they were made under, whether called
    fanoutLog,    \* per fanout id: creations, on_complete calls, and the
                  \* resolutions accepted since its last creation, in order
    agent_state,  \* the store's agent_state attribute when __init__ runs
    built,        \* whether Store.__init__ has run, and what it raised
    declared,     \* the Action class attributes, in the order the class bodies
                  \* (base class first) assigned them: name and handler
    actions,      \* Store._actions: name -> the handler its bound closure runs
    exact,        \* ExactLengthStore._state: current_text and wordcount by leaf,
                  \* and the update_wordcount dispatches of the running call
    stack,        \* the notification loops that are running, innermost last:
                  \* the Delta, the loop's position in the subscriber list
    log,          \* the callback invocations of the outermost dispatch, in order
    agents,       \* AgentRuntime._agents: the agent names, in insertion order
    tools         \* AgentRuntime._tools: agent name -> tool name -> the Tool

vars == <<tree, subscribers, handles, inflight, last, rounds, seen,
          registry, resolvers, fanoutLog, agent_state, built, declared, actions,
          exact, stack, log, agents, tools>>

storeVars == <<tree, subscribers, handles, inflight, last, rounds, seen>>
fanoutVars == <<registry, resolvers, fanoutLog>>
validationVars == <<agent_state, built, declared, actions>>
nestedVars == <<exact, stack, log>>
runtimeVars == <<agents, tools>>

-----------------------------------------------------------------------------
(* Bounds of the model *)

MaxHandles == 2     \* subscribe calls explored (each returns one handle)
MaxCount == 8       \* the count attribute stays within 0..MaxCount
MaxRounds == 2      \* notifying dispatches explored while the subscriber list stays the same
MaxCreates == 2     \* successful Fanouts.create calls explored

-----------------------------------------------------------------------------
(* The state tree.  A leaf is the list of path elements DeepDiff reports    *)
(* for it (what parse_path returns); an element is a string.               *)

S_c == <<"c">>
S_d == <<"d">>
S_u == <<"u">>
S_un == <<"u", "n">>

L_count == <<S_c>>           \* store.c            (a counter)
L_user == <<S_d, S_u>>       \* store.d['u']
L_username == <<S_d, S_un>>  \* store.d['un']

Leaves == {L_count, L_user, L_username}

Vals == {0, 1}
Payloads == {3, 5}

\* dot-notation strings a handler may return in its scope
P_count == <<"c">>
P_d == <<"d">>
P_user == <<"d", ".", "u">>
P_username == <<"d", ".", "u", "n">>
FullDiff == <<".">>     \* Action.scope.full_diff
NoOp == {}              \* Action.scope.no_op

\* the scopes the handlers of the model return
Scopes == {NoOp, {FullDiff}, {P_count}, {P_user}, {P_d}, {P_count, P_user},
           {FullDiff, P_count}}

Callbacks == {"cb1", "cb2", "bad"}   \* "bad" raises when it is called

FanoutIds == {"f1", "f2"}
TaskNames == {"a", "b"}
Results == {"x", "y"}
\* the TaskResults given to resolvers: a success with either result, a
\* failure with "y"
Outcomes == {o \in [success : BOOLEAN, result : Results] : o.success \/ o.result = "y"}

OnErrorKinds == {"declared", "inherited", "none"}
TaskIds == {"t1"}   \* dispatchAsync calls that can be suspended at once
ConcTaskIds == {"t1", "t2"}   \* the same, where calls overlap

-----------------------------------------------------------------------------
(* Strings and lists *)

StartsWith(s, prefix) ==
    /\ Len(prefix) <= Len(s)
    /\ SubSeq(s, 1, Len(prefix)) = prefix

\* ".".join(elements)
RECURSIVE Join(_)
Join(elems) ==
    IF elems = <<>> THEN <<>>
    ELSE IF Len(elems) = 1 THEN elems[1]
    ELSE elems[1] \o <<".">> \o Join(Tail(elems))

Range(seq) == {seq[i] : i \in 1..Len(seq)}

Occurrences(seq, x) == Cardinality({i \in 1..Len(seq) : seq[i] = x})

IndexOf(seq, x) == CHOOSE i \in 1..Len(seq) : seq[i] = x /\ \A j \in 1..(i - 1) : seq[j] # x

\* a faulty list.remove that removes nothing
ListRemoveNothing(seq, x) == seq

\* list.remove(x) for an x that is in the list: drops the first occurrence
ListRemove(seq, x) ==
    LET i == IndexOf(seq, x)
    IN  SubSeq(seq, 1, i - 1) \o SubSeq(seq, i + 1, Len(seq))

-----------------------------------------------------------------------------
(* Store._make_scope_filter: the include_obj_callback given to DeepDiff.   *)
(* path is the list of elements of the level DeepDiff is looking at.       *)

MakeScopeFilter(scopes, path) ==
    LET normalized == Join(path)
    IN  IF normalized = <<>> THEN TRUE
        ELSE \E scope \in scopes :
                 StartsWith(normalized, scope) \/ StartsWith(scope, normalized)

\* DeepDiff(snapshot, self): the leaves whose values differ
DeepDiffFull(before, after) == {l \in Leaves : before[l] # after[l]}

\* DeepDiff(snapshot, self, include_obj_callback=...): DeepDiff skips a level
\* below the root, and everything under it, when the callback rejects it
DeepDiffScoped(before, after, scopes) ==
    {l \in Leaves :
        /\ before[l] # after[l]
        /\ \A k \in 1..Len(l) : MakeScopeFilter(scopes, SubSeq(l, 1, k))}

\* A Delta: the changed leaves that were reported, with their old and new values
MakeDelta(paths, before, after) ==
    [l \in paths |-> [old |-> before[l], new |-> after[l]]]
EmptyDelta == <<>>     \* Delta({})

\* a faulty _process_action that takes the full diff only when the scope is
\* exactly {"."}
ProcessActionExactMarker(before, after, scope) ==
    IF scope = {} THEN EmptyDelta
    ELSE IF scope = {FullDiff} THEN MakeDelta(DeepDiffFull(before, after), before, after)
    ELSE MakeDelta(DeepDiffScoped(before, after, scope), before, after)

\* Store._process_action, after the handler has turned `before` (the
\* snapshot) into `after` and returned `scope`
ProcessAction(before, after, scope) ==
    IF scope = {} THEN EmptyDelta
    ELSE IF FullDiff \in scope THEN MakeDelta(DeepDiffFull(before, after), before, after)
    ELSE MakeDelta(DeepDiffScoped(before, after, scope), before, after)

-----------------------------------------------------------------------------
(* Store._notify_subscribers.  The result is the list of callbacks that    *)
(* were invoked, in order, and the exception that ended the round.         *)

Raises(cb) == cb = "bad"

\* a faulty loop that stops after the first subscriber
NotifyFirstOnly(subs, i, called) ==
    IF Len(subs) = 0 THEN [calls |-> <<>>, raised |-> "none"]
    ELSE [calls |-> <<subs[1]>>,
          raised |-> IF Raises(subs[1]) THEN "CallbackError" ELSE "none"]

RECURSIVE NotifyFrom(_, _, _)
NotifyFrom(subs, i, called) ==
    IF i > Len(subs) THEN [calls |-> called, raised |-> "none"]
    ELSE IF Raises(subs[i])
         THEN [calls |-> Append(called, subs[i]), raised |-> "CallbackError"]
         ELSE NotifyFrom(subs, i + 1, Append(called, subs[i]))

\* a faulty _notify_subscribers without the `if not delta.diff: return`
NotifyAlways(subs, delta) == NotifyFrom(subs, 1, <<>>)

\* a faulty _notify_subscribers that walks the list from its end
NotifyReversed(subs, delta) ==
    IF DOMAIN delta = {} THEN [calls |-> <<>>, raised |-> "none"]
    ELSE NotifyFrom([i \in 1..Len(subs) |-> subs[Len(subs) + 1 - i]], 1, <<>>)

NotifySubscribers(subs, delta) ==
    IF DOMAIN delta = {} THEN [calls |-> <<>>, raised |-> "none"]
    ELSE NotifyFrom(subs, 1, <<>>)

-----------------------------------------------------------------------------
(* Subscribers._make_affects: the query a callback receives *)

\* Python's `sub in s` for strings
Contains(s, sub) ==
    \E i \in 0..(Len(s) - Len(sub)) : SubSeq(s, i + 1, i + Len(sub)) = sub

\* _normalize_delta_path over every path of the delta
NormalizedPaths(delta) == {Join(l) : l \in DOMAIN delta}

\* a faulty affects that answers for the exact path only
AffectsExact(delta, path) == path \in NormalizedPaths(delta)

\* affects(path) of _make_affects(delta)
Affects(delta, path) ==
    IF NormalizedPaths(delta) = {} THEN FALSE
    ELSE \E normalized \in NormalizedPaths(delta) : Contains(normalized, path)

\* the paths callbacks ask about: leaves, ancestors and single key names
Queries == {P_count, P_d, P_user, P_username, <<"u">>, <<"u", "n">>, <<"n">>}

-----------------------------------------------------------------------------
(* What one run of snapshot -> handler -> diff -> notify did *)

\* a faulty snapshot that is not taken when the handler starts: it holds
\* the tree as it was at construction
StaleSnapshot(t) == [l \in Leaves |-> 0]

\* state_snapshot = snapshot(self): a deep copy of the tree as it is now
Snapshot(t) == t

Round(fin, before, after, scope, subs) ==
    LET delta == ProcessAction(Snapshot(before), after, scope)
        n == NotifySubscribers(subs, delta)
    IN  [fin |-> fin, scope |-> scope, changed |-> DeepDiffFull(before, after),
         delta |-> delta, calls |-> n.calls, raised |-> n.raised]

Observed(op, kind, read, rs, raised) ==
    [op |-> op, kind |-> kind, read |-> read, rounds |-> rs,
     raised |-> raised, again |-> FALSE, removed |-> FALSE, inst |-> 0,
     completed |-> <<>>, task |-> "none", arg |-> <<>>, was |-> <<>>]

\* the invocations the rounds of one call add to `seen`, and the rounds that
\* notified
Invocations(rs, cb) ==
    LET RECURSIVE Sum(_)
        Sum(k) == IF k = 0 THEN 0 ELSE Occurrences(rs[k].calls, cb) + Sum(k - 1)
    IN  Sum(Len(rs))

Notifying(rs) == Cardinality({k \in 1..Len(rs) : DOMAIN rs[k].delta # {}})

Tally(rs) ==
    /\ rounds' = rounds + Notifying(rs)
    /\ seen' = [cb \in Callbacks |-> seen[cb] + Invocations(rs, cb)]

ResetTally ==
    /\ rounds' = 0
    /\ seen' = [cb \in Callbacks |-> 0]

Issued == LET RECURSIVE Sum(_)
              Sum(S) == IF S = {} THEN 0
                        ELSE LET c == CHOOSE c \in S : TRUE
                             IN  handles[c].fresh + handles[c].used + Sum(S \ {c})
          IN  Sum(Callbacks)

-----------------------------------------------------------------------------
(* Store.validate_agent_state, run by Store.__init__, and Agents.validate. *)
(* An agent_state value is its type and its items; the items of a dict are *)
(* its entries in iteration order: the key, whether the value is an        *)
(* AgentState, and the value's agent_name.                                 *)

AgentKeys == {"a", "b"}
AgentNames == {"a", "b", "z"}

Entries == [key : AgentKeys, isAgent : {TRUE}, name : AgentNames]
               \cup [key : AgentKeys, isAgent : {FALSE}, name : {"none"}]

NoAgentState == [type |-> "none", items |-> <<>>]

\* dicts of up to two entries with distinct keys
Dicts == {[type |-> "dict", items |-> <<>>]}
             \cup {[type |-> "dict", items |-> <<e>>] : e \in Entries}
             \cup {[type |-> "dict", items |-> <<p[1], p[2]>>] :
                       p \in {q \in Entries \X Entries : q[1].key # q[2].key}}

\* values that are not dicts: lists, strings and numbers, falsy (empty, 0)
\* or truthy
NonDicts == {[type |-> t, items |-> i] :
                 t \in {"list", "str", "int"}, i \in {<<>>, <<"e">>}}

AgentStateInputs == {NoAgentState} \cup Dicts \cup NonDicts

Passed == [raised |-> "none", key |-> "none", name |-> "none"]
NotADict == [raised |-> "TypeError", key |-> "none", name |-> "none"]

\* a faulty loop that looks at the first entry only
CheckFirstOnly(items, i) ==
    IF Len(items) = 0 THEN Passed
    ELSE IF ~items[1].isAgent
         THEN [raised |-> "TypeError", key |-> items[1].key, name |-> "none"]
    ELSE IF items[1].key # items[1].name
         THEN [raised |-> "ValueError", key |-> items[1].key, name |-> items[1].name]
    ELSE Passed

\* for key, state in agent_state.items(): the first entry that fails a test
\* raises, with the key (and the agent_name) in the message
RECURSIVE CheckEntries(_, _)
CheckEntries(items, i) ==
    IF i > Len(items) THEN Passed
    ELSE IF ~items[i].isAgent
         THEN [raised |-> "TypeError", key |-> items[i].key, name |-> "none"]
    ELSE IF items[i].key # items[i].name
         THEN [raised |-> "ValueError", key |-> items[i].key, name |-> items[i].name]
    ELSE CheckEntries(items, i + 1)

\* Store.validate_agent_state: getattr(self, "agent_state", None)
ValidateAgentState(v) ==
    IF v.type = "none" THEN Passed
    ELSE IF v.type # "dict" THEN NotADict
    ELSE CheckEntries(v.items, 1)

\* Agents.validate: `if not agent_state: return` lets every empty value pass
AgentsValidate(v) ==
    IF v.type = "none" \/ v.items = <<>> THEN Passed
    ELSE IF v.type # "dict" THEN NotADict
    ELSE CheckEntries(v.items, 1)

\* the sync actions of the store the other specifications dispatch on
StoreActions == <<[name |-> "increment", handler |-> "increment"],
                  [name |-> "set_user", handler |-> "set_user"],
                  [name |-> "mutate", handler |-> "mutate"]>>

\* class bodies of up to two Action assignments, names repeated or not
ActionNames == {"increment", "set_user"}
Handlers == {"h1", "h2"}
Declaration == [name : ActionNames, handler : Handlers]
Declarations == {<<>>} \cup {<<d>> : d \in Declaration}
                    \cup {<<p[1], p[2]>> : p \in Declaration \X Declaration}

\* getattr(type(self), name): the assignment that was made last
LastDeclared(decls, name) ==
    LET i == CHOOSE i \in 1..Len(decls) :
                 /\ decls[i].name = name
                 /\ \A j \in (i + 1)..Len(decls) : decls[j].name # name
    IN  decls[i].handler

\* Store._bind_actions: one bound closure per name of dir(type(self)) whose
\* class attribute is an Action; no name is looked at twice and nothing is
\* raised
BindActions(decls) ==
    [name \in {decls[i].name : i \in 1..Len(decls)} |-> LastDeclared(decls, name)]

NotBuilt == [done |-> FALSE, result |-> Passed]
Built(result) == [done |-> TRUE, result |-> result]

\* Store.__init__: binds the actions, then validates; when the validation
\* raises there is no store
Construct ==
    /\ ~built.done
    /\ actions' = BindActions(declared)
    /\ built' = Built(ValidateAgentState(agent_state))
    /\ last' = Observed("construct", "none", "na", <<>>,
                        ValidateAgentState(agent_state).raised)
    /\ UNCHANGED <<tree, subscribers, handles, inflight, rounds, seen>>
    /\ UNCHANGED <<agent_state, declared>>
    /\ UNCHANGED <<nestedVars, runtimeVars>>
    /\ UNCHANGED fanoutVars

\* Agents(store).validate(), or validate_agent_state(agent_state) of
\* store/state/AgentState.py, called on the same value
AgentsValidateCall ==
    /\ last' = Observed("validate", "none", "na", <<>>,
                        AgentsValidate(agent_state).raised)
    /\ UNCHANGED <<tree, subscribers, handles, inflight, rounds, seen>>
    /\ UNCHANGED <<fanoutVars, validationVars, runtimeVars, nestedVars>>

-----------------------------------------------------------------------------
(* examples/exact_text_length/store.py: ExactLengthStore, whose own        *)
(* subscriber dispatches update_wordcount from inside its callback, and    *)
(* the notification loop as a loop over the live subscriber list.          *)

S_state == <<"_", "s", "t", "a", "t", "e">>
S_current_text == <<"c", "u", "r", "r", "e", "n", "t", "_", "t", "e", "x", "t">>
S_wordcount == <<"w", "o", "r", "d", "c", "o", "u", "n", "t">>

X_text == <<S_state, S_current_text>>     \* store._state.current_text
X_count == <<S_state, S_wordcount>>       \* store._state.wordcount
ExactLeaves == {X_text, X_count}

P_text == Join(X_text)      \* "_state.current_text"
P_wordcount == Join(X_count)    \* "_state.wordcount"

\* the texts given to update_text: "", "a", "a b"
Texts == {<<>>, <<"a">>, <<"a", " ", "b">>}

\* get_wordcount: len(text.split(" ")), one more than the spaces in text
GetWordcount(text) == Cardinality({i \in 1..Len(text) : text[i] = " "}) + 1

\* ExactLengthState(): current_text = "", wordcount = 0
NewExact == [state |-> (X_text :> <<>> @@ X_count :> 0), nested |-> 0]

\* _process_action on the example store, with the scope its handlers return
ExactDelta(before, after, scope) ==
    LET paths == {l \in ExactLeaves :
                     /\ before[l] # after[l]
                     /\ \A k \in 1..Len(l) : MakeScopeFilter(scope, SubSeq(l, 1, k))}
    IN  [l \in paths |-> [old |-> before[l], new |-> after[l]]]

\* the callbacks of the example: the store's own _on_text_change, and
\* subscribers of the application: one that does nothing, one that
\* unsubscribes itself when it is called, one that unsubscribes "plain"
OnTextChange == "on_text_change"
AppCallbacks == {"plain", "leaver", "kicker"}

Frame(delta, seq, subs) ==
    [delta |-> delta, idx |-> 1, seq |-> seq, start |-> subs, called |-> <<>>]

\* bound(payload) up to the loop of _notify_subscribers: an empty Delta
\* returns at once, any other starts a loop over the list
Dispatched(st, delta, seq) ==
    IF DOMAIN delta = {} THEN st ELSE Append(st, Frame(delta, seq, subscribers))

\* the rest of ExactLengthStore.__init__ after super().__init__():
\* self.subscribe(self._on_text_change)
ConstructExact ==
    /\ last.op = "init"
    /\ subscribers = <<>>
    /\ subscribers' = <<OnTextChange>>
    /\ last' = Observed("construct", "ExactLengthStore", "na", <<>>, "none")
    /\ UNCHANGED <<tree, handles, inflight, rounds, seen>>
    /\ UNCHANGED <<fanoutVars, validationVars, runtimeVars, nestedVars>>

\* store.subscribe(cb) by the application, between dispatches
AppSubscribe(cb) ==
    /\ OnTextChange \in Range(subscribers)
    /\ stack = <<>>
    /\ cb \notin Range(subscribers)
    /\ subscribers' = Append(subscribers, cb)
    /\ last' = Observed("subscribe", cb, "na", <<>>, "none")
    /\ UNCHANGED <<tree, handles, inflight, rounds, seen>>
    /\ UNCHANGED <<fanoutVars, validationVars, runtimeVars, nestedVars>>

\* store.update_text(new_text) by the application: the handler assigns
\* current_text and returns {"_state.current_text"}; the notification loop
\* starts when the Delta is not empty
UpdateText(new_text) ==
    /\ OnTextChange \in Range(subscribers)
    /\ stack = <<>>
    /\ LET after == [exact.state EXCEPT ![X_text] = new_text]
           delta == ExactDelta(exact.state, after, {P_text})
       IN  /\ exact' = [state |-> after, nested |-> 0]
           /\ stack' = Dispatched(<<>>, delta, 1)
           /\ last' = [Observed("dispatch", "update_text", "na", <<>>, "none")
                           EXCEPT !.arg = <<[changed |-> DOMAIN delta # {}]>>]
    /\ log' = <<>>
    /\ UNCHANGED <<tree, subscribers, handles, inflight, rounds, seen>>
    /\ UNCHANGED <<fanoutVars, validationVars, runtimeVars>>

\* one pass of `for subscriber in self._subscribers: subscriber(delta)` of
\* the innermost loop: the list iterator yields the element at its position
\* in the list as it is now, and the callback runs to its end, a dispatch
\* made in it up to the start of that dispatch's own loop
CallNext ==
    /\ stack # <<>>
    /\ LET top == stack[Len(stack)]
       IN  /\ top.idx <= Len(subscribers)
           /\ LET cb == subscribers[top.idx]
                  advanced == [stack EXCEPT ![Len(stack)] =
                                  [top EXCEPT !.idx = @ + 1, !.called = Append(@, cb)]]
                  counted == [exact.state EXCEPT
                                 ![X_count] = GetWordcount(exact.state[X_text])]
              IN  /\ log' = Append(log, [cb |-> cb, seq |-> top.seq])
                  /\ IF cb = OnTextChange /\ Affects(top.delta, S_current_text)
                     THEN \* self.update_wordcount(None)
                          /\ exact' = [state |-> counted, nested |-> exact.nested + 1]
                          /\ stack' = Dispatched(advanced,
                                          ExactDelta(exact.state, counted, {P_wordcount}),
                                          exact.nested + 2)
                          /\ UNCHANGED subscribers
                     ELSE /\ stack' = advanced
                          /\ UNCHANGED exact
                          /\ subscribers' =
                                 IF cb = "leaver" THEN ListRemove(subscribers, "leaver")
                                 ELSE IF cb = "kicker" /\ "plain" \in Range(subscribers)
                                      THEN ListRemove(subscribers, "plain")
                                 ELSE subscribers
    /\ UNCHANGED <<tree, handles, inflight, last, rounds, seen>>
    /\ UNCHANGED <<fanoutVars, validationVars, runtimeVars>>

\* the innermost loop ends: the iterator's position is past the end of the
\* list as it is now
Return ==
    /\ stack # <<>>
    /\ LET top == stack[Len(stack)]
       IN  /\ top.idx > Len(subscribers)
           /\ last' = [Observed("round", "none", "na", <<>>, "none")
                           EXCEPT !.arg = <<[start |-> top.start, called |-> top.called,
                                             final |-> subscribers, seq |-> top.seq]>>]
    /\ stack' = SubSeq(stack, 1, Len(stack) - 1)
    /\ UNCHANGED <<tree, subscribers, handles, inflight, rounds, seen>>
    /\ UNCHANGED <<fanoutVars, validationVars, runtimeVars, exact, log>>

-----------------------------------------------------------------------------
(* Initial state: Store.__init__ of a store subclass whose attributes are  *)
(* c = 0 and d = {'u': 0, 'un': 0}                                         *)

InitStore ==
    /\ tree = [l \in Leaves |-> 0]
    /\ subscribers = <<>>
    /\ handles = [c \in Callbacks |-> [fresh |-> 0, used |-> 0]]
    /\ inflight = [i \in ConcTaskIds |-> "idle"]
    /\ last = Observed("init", "none", "na", <<>>, "none")
    /\ rounds = 0
    /\ seen = [cb \in Callbacks |-> 0]
    /\ registry = <<>>
    /\ resolvers = {}
    /\ fanoutLog = [f \in FanoutIds |-> [created |-> 0, fired |-> 0, order |-> <<>>]]
    /\ exact = NewExact
    /\ stack = <<>>
    /\ log = <<>>
    /\ agents = <<>>
    /\ tools = <<>>

\* a store without agent_state, constructed
Init ==
    /\ InitStore
    /\ agent_state = NoAgentState
    /\ built = Built(ValidateAgentState(NoAgentState))
    /\ declared = StoreActions
    /\ actions = BindActions(StoreActions)

\* a store subclass with some agent_state, about to be constructed
ValidateInit ==
    /\ InitStore
    /\ agent_state \in AgentStateInputs
    /\ built = NotBuilt
    /\ declared \in Declarations
    /\ actions = <<>>

-----------------------------------------------------------------------------
(* Sync actions: the bound closure of Store._bind_actions                  *)

\* bound(payload): delta = _process_action(handler, payload); _notify_subscribers(delta)
\* `was` is what the caller kept from before the call, for comparison
BoundFrom(name, after, scope, was) ==
    LET r == Round("handler", tree, after, scope, subscribers)
    IN  /\ rounds < MaxRounds
        /\ tree' = after
        /\ last' = [Observed("dispatch", name, "na", <<r>>, r.raised)
                        EXCEPT !.was = was]
        /\ Tally(<<r>>)
        /\ UNCHANGED <<subscribers, handles, inflight>>
        /\ UNCHANGED <<fanoutVars, validationVars, runtimeVars, nestedVars>>

Bound(name, after, scope) == BoundFrom(name, after, scope, <<>>)

\* def increment(self, n): self.c += n; return frozenset({"c"})
Increment(n) ==
    /\ tree[L_count] + n <= MaxCount
    /\ Bound("increment", [tree EXCEPT ![L_count] = @ + n], {P_count})

\* def set_user(self, v): returns no_op when the value is already v
SetUser(v) ==
    IF tree[L_user] = v
    THEN Bound("set_user", tree, NoOp)
    ELSE Bound("set_user", [tree EXCEPT ![L_user] = v], {P_user})

\* any handler body over d, returning any scope
Writes(t) == {w \in [Leaves -> Vals \cup {t[L_count]}] :
                  /\ w[L_count] = t[L_count]
                  /\ w[L_user] \in Vals
                  /\ w[L_username] \in Vals}

Mutate(after, scope) == Bound("mutate", after, scope)

\* the scopes compared: the full-tree marker, alone or with paths, and the
\* narrow scopes over d
DiffScopes == Scopes \cup {{P_username}, {P_user, P_username}, {FullDiff, P_user}}

\* the same dispatch by a caller that kept a copy of the tree it started from
MutateFrom(after, scope) ==
    BoundFrom("mutate", after, scope, <<[tree |-> tree]>>)

\* a faulty store that puts the snapshot back when the handler raises
RolledBack(before, written) == before

\* the tree after a handler wrote `written` and raised: nothing restores
\* the snapshot
HandlerRaised(before, written) == written

\* bound(payload) for a handler that turns the tree into `written` and then
\* raises: the exception leaves _process_action and bound, _notify_subscribers
\* is not reached
MutateRaises(written) ==
    /\ tree' = HandlerRaised(tree, written)
    /\ last' = [Observed("dispatch", "mutate_raises", "na", <<>>, "HandlerError")
                    EXCEPT !.arg = <<[written |-> written,
                                      changed |-> DeepDiffFull(tree, written)]>>]
    /\ UNCHANGED <<subscribers, handles, inflight, rounds, seen>>
    /\ UNCHANGED <<fanoutVars, validationVars, runtimeVars, nestedVars>>

\* a faulty descriptor whose __call__ runs the handler on the store
UnboundRunsHandler(t, n) ==
    [tree |-> [t EXCEPT ![L_count] = (@ + n) % (MaxCount + 1)], raised |-> "none"]

\* Action.__call__(payload): what calling the descriptor itself does to a
\* store's tree, and what it raises
Unbound(t, n) == [tree |-> t, raised |-> "RuntimeError"]

\* MyStore.increment(n), or the Action object called directly, while a
\* store exists
CallUnbound(n) ==
    /\ tree' = Unbound(tree, n).tree
    /\ last' = [Observed("call_unbound", "increment", "na", <<>>, Unbound(tree, n).raised)
                    EXCEPT !.was = <<[tree |-> tree]>>]
    /\ UNCHANGED <<subscribers, handles, inflight, rounds, seen>>
    /\ UNCHANGED <<fanoutVars, validationVars, runtimeVars, nestedVars>>

\* a dispatch whose Delta is turned into an affects query, by
\* Subscribers.notify for the callbacks or by _make_affects called on it,
\* and asked about q
MutateAsk(after, scope, q) ==
    LET r == Round("handler", tree, after, scope, subscribers)
    IN  /\ rounds < MaxRounds
        /\ tree' = after
        /\ last' = [Observed("dispatch", "mutate", "na", <<r>>, r.raised)
                        EXCEPT !.arg = <<[asked |-> q, answer |-> Affects(r.delta, q)]>>]
        /\ Tally(<<r>>)
        /\ UNCHANGED <<subscribers, handles, inflight>>
        /\ UNCHANGED <<fanoutVars, validationVars, runtimeVars, nestedVars>>

-----------------------------------------------------------------------------
(* Store.subscribe and the unsubscribe closure it returns *)

Subscribe(cb) ==
    /\ Issued < MaxHandles
    /\ subscribers' = Append(subscribers, cb)
    /\ handles' = [handles EXCEPT ![cb].fresh = @ + 1]
    /\ last' = Observed("subscribe", cb, "na", <<>>, "none")
    /\ ResetTally
    /\ UNCHANGED <<tree, inflight>>
    /\ UNCHANGED <<fanoutVars, validationVars, runtimeVars, nestedVars>>

\* lambda: self._subscribers.remove(callback); list.remove raises ValueError
\* when the callback is not in the list
Unsubscribe(cb, again) ==
    /\ IF again THEN handles[cb].used > 0 ELSE handles[cb].fresh > 0
    /\ handles' = IF again THEN handles
                  ELSE [handles EXCEPT ![cb].fresh = @ - 1, ![cb].used = @ + 1]
    /\ IF cb \in Range(subscribers)
       THEN /\ subscribers' = ListRemove(subscribers, cb)
            /\ last' = [Observed("unsubscribe", cb, "na", <<>>, "none")
                            EXCEPT !.again = again, !.removed = TRUE]
            /\ ResetTally
       ELSE /\ subscribers' = subscribers
            /\ last' = [Observed("unsubscribe", cb, "na", <<>>, "ValueError")
                            EXCEPT !.again = again]
            /\ UNCHANGED <<rounds, seen>>
    /\ UNCHANGED <<tree, inflight>>
    /\ UNCHANGED <<fanoutVars, validationVars, runtimeVars, nestedVars>>

-----------------------------------------------------------------------------
(* Async actions: Store._run_async_action.  The call suspends in           *)
(* `await async_action.handler(self, payload)`; everything after the await *)
(* runs without suspension.                                                *)

\* def on_error(self, store, error): store.d['un'] = 1; return frozenset({"d.un"})
SetError(t) == [after |-> [t EXCEPT ![L_username] = 1], scope |-> {P_username}]

\* AsyncAction.on_error of the base class: return frozenset()
InheritedOnError(t) == [after |-> t, scope |-> NoOp]

\* what the success finalizers of the model do: they write d['u'] and return
\* one of these scopes
SuccessWrites(t) == {[t EXCEPT ![L_user] = v] : v \in Vals}
SuccessScopes == {NoOp, {P_user}, {FullDiff}}

\* a faulty test that never finds an on_error
OnErrorNever(kind) == FALSE

\* `if async_action.on_error:`; "inherited" is the bound base class method
OnErrorTruthy(kind) == kind # "none"

AsyncStart(i, kind) ==
    /\ inflight[i] = "idle"
    /\ inflight' = [inflight EXCEPT ![i] = kind]
    /\ UNCHANGED <<tree, subscribers, handles, last, rounds, seen>>
    /\ UNCHANGED <<fanoutVars, validationVars, runtimeVars, nestedVars>>

\* the other calls that are suspended in their read phase
Suspended(i) == {j \in ConcTaskIds \ {i} : inflight[j] # "idle"}

\* what the awaiting caller of call i observed
AsyncObserved(i, kind, read, rs, raised) ==
    [Observed("dispatchAsync", kind, read, rs, raised)
         EXCEPT !.task = i, !.arg = <<[suspended |-> Suspended(i)]>>]

\* the except branch of _run_async_action, entered with exception exc while
\* the tree is t; `done` are the rounds already run in the try block
\* `was` is what the caller kept from before the call, for comparison
ExceptBranchFrom(i, kind, read, t, done, exc, was) ==
    IF OnErrorTruthy(kind)
    THEN LET h == IF kind = "declared" THEN SetError(t) ELSE InheritedOnError(t)
             r == Round("on_error", t, h.after, h.scope, subscribers)
         IN  /\ tree' = h.after
             /\ last' = [AsyncObserved(i, kind, read, Append(done, r), r.raised)
                             EXCEPT !.was = was]
             /\ Tally(Append(done, r))
    ELSE /\ tree' = t
         /\ last' = [AsyncObserved(i, kind, read, done, exc) EXCEPT !.was = was]
         /\ Tally(done)

ExceptBranch(i, kind, read, t, done, exc) ==
    ExceptBranchFrom(i, kind, read, t, done, exc, <<>>)

\* the read phase returns a result; on_success turns the tree into `after`
AsyncResolve(i, after, scope) ==
    /\ inflight[i] # "idle"
    /\ rounds < MaxRounds
    /\ LET kind == inflight[i]
           r == Round("on_success", tree, after, scope, subscribers)
       IN  IF r.raised = "none"
           THEN /\ tree' = after
                /\ last' = AsyncObserved(i, kind, "ok", <<r>>, "none")
                /\ Tally(<<r>>)
           ELSE ExceptBranch(i, kind, "ok", after, <<r>>, r.raised)
    /\ inflight' = [inflight EXCEPT ![i] = "idle"]
    /\ UNCHANGED <<subscribers, handles>>
    /\ UNCHANGED <<fanoutVars, validationVars, runtimeVars, nestedVars>>

\* what a handler that breaks the read-only rule does before it returns:
\* store.c = 7
ReadValue == 7
ReadWrites(t) == {[t EXCEPT ![L_count] = ReadValue]}

\* a faulty store that takes the snapshot before the await
SnapshotBeforeAwait(atCall, atFinalize) == atCall

\* the tree that _process_action copies: snapshot(self) runs after the
\* await, when on_success is about to be called
SnapshotPoint(atCall, atFinalize) == atFinalize

\* the read phase writes the tree (turning it into `written`) and returns a
\* result; on_success turns `written` into `after`
AsyncWriteResolve(i, written, after, scope) ==
    /\ inflight[i] # "idle"
    /\ rounds < MaxRounds
    /\ LET kind == inflight[i]
           was == <<[before |-> tree, written |-> written, finalized |-> after]>>
           r == Round("on_success", SnapshotPoint(tree, written), after, scope, subscribers)
       IN  IF r.raised = "none"
           THEN /\ tree' = after
                /\ last' = [AsyncObserved(i, kind, "ok", <<r>>, "none")
                                EXCEPT !.was = was]
                /\ Tally(<<r>>)
           ELSE ExceptBranchFrom(i, kind, "ok", after, <<r>>, r.raised, was)
    /\ inflight' = [inflight EXCEPT ![i] = "idle"]
    /\ UNCHANGED <<subscribers, handles>>
    /\ UNCHANGED <<fanoutVars, validationVars, runtimeVars, nestedVars>>

\* the read phase raises
AsyncReject(i) ==
    /\ inflight[i] # "idle"
    /\ rounds < MaxRounds
    /\ ExceptBranch(i, inflight[i], "raise", tree, <<>>, "ReadError")
    /\ inflight' = [inflight EXCEPT ![i] = "idle"]
    /\ UNCHANGED <<subscribers, handles>>
    /\ UNCHANGED <<fanoutVars, validationVars, runtimeVars, nestedVars>>

\* a faulty handler clause that catches every exception
CatchesAll(exc) == TRUE

\* `except Exception as e`: asyncio.CancelledError is a BaseException and
\* is not caught
CaughtByExcept(exc) == exc # "CancelledError"

\* the host cancels the call while it is suspended in the read phase:
\* CancelledError is raised at the await
AsyncCancel(i) ==
    /\ inflight[i] # "idle"
    /\ IF CaughtByExcept("CancelledError")
       THEN ExceptBranch(i, inflight[i], "cancel", tree, <<>>, "CancelledError")
       ELSE /\ tree' = tree
            /\ last' = [AsyncObserved(i, inflight[i], "cancel", <<>>, "CancelledError")
                            EXCEPT !.was = <<[tree |-> tree]>>]
            /\ UNCHANGED <<rounds, seen>>
    /\ inflight' = [inflight EXCEPT ![i] = "idle"]
    /\ UNCHANGED <<subscribers, handles>>
    /\ UNCHANGED <<fanoutVars, validationVars, runtimeVars, nestedVars>>

\* overlapping calls: the success finalizer of a call writes the call's own
\* leaf and returns that leaf's path or the full-tree marker
OwnLeaf(i) == IF i = "t1" THEN L_user ELSE L_username
OwnPath(i) == IF i = "t1" THEN P_user ELSE P_username
ConcWrites(i, t) == {[t EXCEPT ![OwnLeaf(i)] = v] : v \in Vals}
ConcScopes(i) == {{OwnPath(i)}, {FullDiff}}

-----------------------------------------------------------------------------

(* Fanouts: create, make_resolver, the resolver closure and completion.    *)
(* The coordinator keeps one watcher per active fanout in the store's      *)
(* subscriber list.                                                        *)

Watcher(f) == IF f = "f1" THEN "watch_f1" ELSE "watch_f2"

\* the task names create is given: at least one name, no name twice (the
\* registration is keyed by task name, the order of the names is not kept)
TaskLists == (SUBSET TaskNames) \ {{}}

Unresolved == [resolved |-> FALSE, success |-> FALSE, result |-> "none"]

Created == LET RECURSIVE Sum(_)
               Sum(S) == IF S = {} THEN 0
                         ELSE LET f == CHOOSE f \in S : TRUE
                              IN  fanoutLog[f].created + Sum(S \ {f})
           IN  Sum(FanoutIds)

\* the resolution that turned the registration of f into `status`: the
\* task that was unresolved, and the TaskResult it was given
Resolution(f, status) ==
    LET written == {t \in DOMAIN status : status[t] # registry[f][t]}
        t == IF written # {} THEN CHOOSE t \in written : TRUE
             ELSE CHOOSE t \in DOMAIN status : TRUE
    IN  [task |-> t, success |-> status[t].success, result |-> status[t].result]

\* a faulty completion test: one resolved task is enough
AnyResolved(status) == \E t \in DOMAIN status : status[t].resolved

AllResolved(status) == \A t \in DOMAIN status : status[t].resolved

\* a faulty aggregate that counts the unsuccessful tasks as successes too
FanoutResultMiscount(f, status) ==
    LET failed == {t \in DOMAIN status : ~status[t].success}
    IN  [fanout_id |-> f,
         success_count |-> Cardinality(DOMAIN status),
         failure_count |-> Cardinality(failed),
         all_succeeded |-> Cardinality(failed) = 0,
         tasks |-> status]

\* a faulty aggregate whose all_succeeded is the success of the task that
\* was resolved last
FanoutResultLastOnly(f, status) ==
    LET ok == {t \in DOMAIN status : status[t].success}
        failed == {t \in DOMAIN status : ~status[t].success}
    IN  [fanout_id |-> f,
         success_count |-> Cardinality(ok),
         failure_count |-> Cardinality(failed),
         all_succeeded |-> IF f \in DOMAIN registry
                           THEN Resolution(f, status).success
                           ELSE Cardinality(failed) = 0,
         tasks |-> status]

FanoutResult(f, status) ==
    LET ok == {t \in DOMAIN status : status[t].success}
        failed == {t \in DOMAIN status : ~status[t].success}
    IN  [fanout_id |-> f,
         success_count |-> Cardinality(ok),
         failure_count |-> Cardinality(failed),
         all_succeeded |-> Cardinality(failed) = 0,
         tasks |-> status]

\* what a call on the coordinator returned or raised; `was` keeps the
\* registry and the subscriber list the call found
FanoutObserved(op, f, raised, completed) ==
    [Observed(op, f, "na", <<>>, raised)
         EXCEPT !.completed = completed,
                !.was = <<[registry |-> registry, subscribers |-> subscribers,
                           log |-> fanoutLog]>>]

\* a faulty test that finds no fanout id active
NeverActive(f) == FALSE

\* `fanout_id in self.registry`
Active(f) == f \in DOMAIN registry

\* a faulty test that finds no task resolved
NeverResolved(f, t) == FALSE

\* `self.registry[fanout_id][task_name].resolved`
AlreadyResolved(f, t) == registry[f][t].resolved

\* create(fanout_id, fanout_description, task_names, on_complete)
Create(f, names) ==
    /\ Created < MaxCreates
    /\ IF Active(f)
       THEN /\ last' = FanoutObserved("create", f, "ValueError", <<>>)
            /\ UNCHANGED <<registry, subscribers, fanoutLog>>
       ELSE /\ registry' = (f :> [t \in names |-> Unresolved]) @@ registry
            /\ subscribers' = Append(subscribers, Watcher(f))
            /\ fanoutLog' = [fanoutLog EXCEPT ![f].created = @ + 1, ![f].order = <<>>]
            /\ last' = [FanoutObserved("create", f, "none", <<>>)
                            EXCEPT !.arg = <<[names |-> names]>>]
    /\ UNCHANGED <<tree, handles, inflight, rounds, seen, resolvers>>
    /\ UNCHANGED <<validationVars, runtimeVars, nestedVars>>

\* make_resolver(fanout_id, task_name)
MakeResolver(f, t) ==
    /\ IF Active(f) /\ t \in DOMAIN registry[f]
       THEN /\ resolvers' = resolvers \cup {[fanout |-> f, task |-> t,
                                             inst |-> fanoutLog[f].created,
                                             used |-> FALSE]}
            /\ last' = [FanoutObserved("make_resolver", f, "none", <<>>)
                            EXCEPT !.task = t]
       ELSE /\ resolvers' = resolvers
            /\ last' = [FanoutObserved("make_resolver", f, "ValueError", <<>>)
                            EXCEPT !.task = t]
    /\ UNCHANGED <<tree, subscribers, handles, inflight, rounds, seen, registry,
                   fanoutLog, validationVars, runtimeVars, nestedVars>>

\* a faulty completion that leaves the watcher subscribed
CompleteKeepsWatcher(f, status) ==
    /\ registry' = [g \in DOMAIN registry \ {f} |-> registry[g]]
    /\ subscribers' = subscribers
    /\ fanoutLog' = [fanoutLog EXCEPT ![f].fired = @ + 1,
                                      ![f].order = Append(@, Resolution(f, status))]

\* a faulty completion that keeps the registration, with every task resolved
CompleteKeepsEntry(f, status) ==
    /\ registry' = [registry EXCEPT ![f] = status]
    /\ subscribers' = ListRemove(subscribers, Watcher(f))
    /\ fanoutLog' = [fanoutLog EXCEPT ![f].fired = @ + 1,
                                      ![f].order = Append(@, Resolution(f, status))]

\* the watcher's check after a resolution found every task resolved:
\* on_complete is called with the FanoutResult (recorded by the caller in
\* last.completed), the registration is purged, the watcher unsubscribed
Complete(f, status) ==
    /\ registry' = [g \in DOMAIN registry \ {f} |-> registry[g]]
    /\ subscribers' = ListRemove(subscribers, Watcher(f))
    /\ fanoutLog' = [fanoutLog EXCEPT ![f].fired = @ + 1,
                                      ![f].order = Append(@, Resolution(f, status))]

\* resolver(TaskResult(success, result)) for a resolver made earlier; the
\* closure holds the fanout id and the task name only
Resolve(r, success, result) ==
    /\ r \in resolvers
    /\ resolvers' = (resolvers \ {r}) \cup {[r EXCEPT !.used = TRUE]}
    /\ LET f == r.fanout
           t == r.task
           seenAs(raised, completed) ==
               [FanoutObserved("resolve", f, raised, completed)
                    EXCEPT !.again = r.used, !.inst = r.inst, !.task = t,
                           !.arg = IF raised = "none"
                                   THEN <<[task |-> t, success |-> success,
                                           result |-> result]>>
                                   ELSE <<>>]
       IN  IF ~Active(f) \/ t \notin DOMAIN registry[f]
           THEN /\ last' = seenAs("LookupError", <<>>)
                /\ UNCHANGED <<registry, subscribers, fanoutLog>>
           ELSE IF AlreadyResolved(f, t)
           THEN /\ last' = seenAs("RuntimeError", <<>>)
                /\ UNCHANGED <<registry, subscribers, fanoutLog>>
           ELSE LET status == [registry[f] EXCEPT ![t] =
                                  [resolved |-> TRUE, success |-> success, result |-> result]]
                IN  IF AllResolved(status)
                    THEN /\ Complete(f, status)
                         /\ last' = seenAs("none", <<FanoutResult(f, status)>>)
                    ELSE /\ registry' = [registry EXCEPT ![f] = status]
                         /\ fanoutLog' = [fanoutLog EXCEPT ![f].order =
                                              Append(@, Resolution(f, status))]
                         /\ last' = seenAs("none", <<>>)
                         /\ UNCHANGED subscribers
    /\ UNCHANGED <<tree, handles, inflight, rounds, seen>>
    /\ UNCHANGED <<validationVars, runtimeVars, nestedVars>>

-----------------------------------------------------------------------------
(* Spec: the sync pipeline with the subscriber list.                       *)
(* AsyncSpec: the async pipeline, with a sync action and the subscriber    *)
(* list beside it.  FanoutSpec: the fanout coordinator.  ConcSpec: two     *)
(* async calls that overlap, and cancellation.  ValidateSpec: construction *)
(* with an agent_state, then dispatches.  ReadWriteSpec: async calls whose *)
(* read phase writes the tree.  RuntimeSpec, LifecycleSpec, ShouldActSpec, *)
(* RunSpec, ToolSpec (defined with the runtime): the agent runtime beside  *)
(* its store.                                                              *)

Next ==
    \/ \E v \in Vals : SetUser(v)
    \/ \E after \in Writes(tree), scope \in Scopes : Mutate(after, scope)
    \/ \E written \in Writes(tree) : MutateRaises(written)
    \/ \E n \in Payloads : CallUnbound(n)
    \/ \E cb \in Callbacks : Subscribe(cb)
    \/ \E cb \in Callbacks, again \in BOOLEAN : Unsubscribe(cb, again)

Spec == Init /\ [][Next]_vars

AsyncNext ==
    \/ \E i \in TaskIds, kind \in OnErrorKinds : AsyncStart(i, kind)
    \/ \E i \in TaskIds, after \in SuccessWrites(tree), scope \in SuccessScopes :
          AsyncResolve(i, after, scope)
    \/ \E i \in TaskIds : AsyncReject(i)
    \/ \E n \in Payloads : Increment(n)
    \/ \E cb \in Callbacks : Subscribe(cb)
    \/ \E cb \in Callbacks, again \in BOOLEAN : Unsubscribe(cb, again)

AsyncSpec == Init /\ [][AsyncNext]_vars
FanoutNext ==
    \/ \E f \in FanoutIds, names \in TaskLists : Create(f, names)
    \/ \E f \in FanoutIds, t \in TaskNames : MakeResolver(f, t)
    \/ \E r \in resolvers, o \in Outcomes : Resolve(r, o.success, o.result)

FanoutSpec == Init /\ [][FanoutNext]_vars

ConcNext ==
    \/ \E i \in ConcTaskIds, kind \in OnErrorKinds : AsyncStart(i, kind)
    \/ \E i \in ConcTaskIds : \E after \in ConcWrites(i, tree), scope \in ConcScopes(i) :
          AsyncResolve(i, after, scope)
    \/ \E i \in ConcTaskIds : AsyncReject(i)
    \/ \E i \in ConcTaskIds : AsyncCancel(i)
    \/ \E cb \in Callbacks : Subscribe(cb)

ConcSpec == Init /\ [][ConcNext]_vars

ReadWriteNext ==
    \/ \E i \in TaskIds, kind \in OnErrorKinds : AsyncStart(i, kind)
    \/ \E i \in TaskIds, written \in ReadWrites(tree), scope \in SuccessScopes :
          \E after \in SuccessWrites(written) : AsyncWriteResolve(i, written, after, scope)
    \/ \E n \in Payloads : Increment(n)
    \/ \E cb \in Callbacks : Subscribe(cb)

ReadWriteSpec == Init /\ [][ReadWriteNext]_vars

ScopeNext ==
    \/ \E after \in Writes(tree), scope \in DiffScopes : MutateFrom(after, scope)
    \/ \E cb \in Callbacks : Subscribe(cb)
    \/ \E cb \in Callbacks : Unsubscribe(cb, FALSE)

ScopeSpec == Init /\ [][ScopeNext]_vars

\* the scopes of the dispatches whose Delta is asked about
AffectsScopes == {NoOp, {FullDiff}, {P_username}}

AffectsNext ==
    \/ \E after \in Writes(tree), scope \in AffectsScopes, q \in Queries :
          MutateAsk(after, scope, q)
    \/ \E cb \in Callbacks : Subscribe(cb)
    \/ \E cb \in Callbacks : Unsubscribe(cb, FALSE)

AffectsSpec == Init /\ [][AffectsNext]_vars

NestedNext ==
    \/ ConstructExact
    \/ \E cb \in AppCallbacks : AppSubscribe(cb)
    \/ \E text \in Texts : UpdateText(text)
    \/ CallNext
    \/ Return

NestedSpec == Init /\ [][NestedNext]_vars

\* a dispatch needs the store that __init__ returned
DispatchOnBuilt(n) ==
    /\ built.done
    /\ built.result.raised = "none"
    /\ "increment" \in DOMAIN actions
    /\ Increment(n)

ValidateNext ==
    \/ Construct
    \/ AgentsValidateCall
    \/ \E n \in Payloads : DispatchOnBuilt(n)

ValidateSpec == ValidateInit /\ [][ValidateNext]_vars

-----------------------------------------------------------------------------
(* agent_app/AgentRuntime.py: the runtime holds the Agent objects and the  *)
(* tool handlers; the agents' state (the should_act flag, the metadata of  *)
(* the granted tools) is in the store's agent_state.  An agent_state entry *)
(* of the runtime has the fields should_act and tools beside its name.     *)

RuntimeNames == {"a", "b"}
MaxTools == 2       \* metadata entries one agent's state can hold

\* dict operations over the items of agent_state, kept in insertion order
DictKeys(items) == {items[i].key : i \in 1..Len(items)}
DictGet(items, key) == items[CHOOSE i \in 1..Len(items) : items[i].key = key]
DictSet(items, entry) ==
    IF entry.key \in DictKeys(items)
    THEN [i \in 1..Len(items) |-> IF items[i].key = entry.key THEN entry ELSE items[i]]
    ELSE Append(items, entry)
DictDel(items, key) == SelectSeq(items, LAMBDA e : e.key # key)
MapDel(f, k) == [x \in DOMAIN f \ {k} |-> f[x]]

\* AgentState(agent_name=name): should_act = False, tools = []
NewAgentState(name) ==
    [key |-> name, isAgent |-> TRUE, name |-> name, should_act |-> FALSE,
     tools |-> <<>>]

\* should_act_access: "all", or a frozenset of agent names
NoAccess == [all |-> FALSE, names |-> {}]
AllAccess == [all |-> TRUE, names |-> {}]
Access == {NoAccess, AllAccess, [all |-> FALSE, names |-> {"a"}]}
\* `if should_act_access:` the empty frozenset is falsy, "all" is truthy
Truthy(access) == access.all \/ access.names # {}

\* make_should_act_tool(allowed_agents): the Tool, by its name and what its
\* handler closes over
make_should_act_tool(allowed_agents) ==
    [name |-> "update_should_act", kind |-> "should_act",
     action |-> "update_should_act", allowed |-> allowed_agents]

\* the runtime beside its store
Runtime == [state |-> agent_state.items, agents |-> agents, tools |-> tools]
Returned(rt) == [rt |-> rt, raised |-> "none"]
Raised(rt, exc) == [rt |-> rt, raised |-> exc]

\* a faulty grant_tool that stores the handler only
GrantHandlerOnly(rt, agent_name, tool) ==
    IF agent_name \notin Range(rt.agents) THEN Raised(rt, "KeyError")
    ELSE Returned([rt EXCEPT !.tools[agent_name] = (tool.name :> tool) @@ @])

\* AgentRuntime.grant_tool: state.tools.append(metadata), then
\* self._tools[agent_name][tool.name] = tool
grant_tool(rt, agent_name, tool) ==
    IF agent_name \notin Range(rt.agents) THEN Raised(rt, "KeyError")
    ELSE IF agent_name \notin DictKeys(rt.state) THEN Raised(rt, "KeyError")
    ELSE LET state == DictGet(rt.state, agent_name)
             r1 == [rt EXCEPT !.state =
                        DictSet(@, [state EXCEPT !.tools = Append(@, tool.name)])]
         IN  IF agent_name \notin DOMAIN rt.tools THEN Raised(r1, "KeyError")
             ELSE Returned([r1 EXCEPT !.tools[agent_name] = (tool.name :> tool) @@ @])

\* AgentRuntime.revoke_tool
revoke_tool(rt, agent_name, tool_name) ==
    IF agent_name \notin Range(rt.agents) THEN Raised(rt, "KeyError")
    ELSE IF agent_name \notin DOMAIN rt.tools THEN Raised(rt, "KeyError")
    ELSE IF tool_name \notin DOMAIN rt.tools[agent_name] THEN Raised(rt, "KeyError")
    ELSE IF agent_name \notin DictKeys(rt.state) THEN Raised(rt, "KeyError")
    ELSE LET state == DictGet(rt.state, agent_name)
             kept == SelectSeq(state.tools, LAMBDA t : t # tool_name)
         IN  Returned([rt EXCEPT !.state = DictSet(@, [state EXCEPT !.tools = kept]),
                                 !.tools[agent_name] = MapDel(@, tool_name)])

\* a faulty create_agent without the `if name in self._agents` test
CreateOverwrites(rt, name, access) ==
    LET r3 == [rt EXCEPT !.state = DictSet(@, NewAgentState(name)),
                         !.tools = (name :> <<>>) @@ @,
                         !.agents = Append(@, name)]
    IN  IF Truthy(access) THEN grant_tool(r3, name, make_should_act_tool(access))
        ELSE Returned(r3)

\* AgentRuntime.create_agent: the state is put into agent_state, the tool
\* storage is made, the Agent is stored, the should_act tool is granted
create_agent(rt, name, access) ==
    IF name \in Range(rt.agents) THEN Raised(rt, "ValueError")
    ELSE LET r3 == [rt EXCEPT !.state = DictSet(@, NewAgentState(name)),
                              !.tools = (name :> <<>>) @@ @,
                              !.agents = Append(@, name)]
         IN  IF Truthy(access) THEN grant_tool(r3, name, make_should_act_tool(access))
             ELSE Returned(r3)

\* AgentRuntime.remove_agent: three del statements, one after the other
remove_agent(rt, name) ==
    IF name \notin Range(rt.agents) THEN Raised(rt, "KeyError")
    ELSE LET r1 == [rt EXCEPT !.agents = ListRemove(@, name)]
         IN  IF name \notin DOMAIN rt.tools THEN Raised(r1, "KeyError")
             ELSE LET r2 == [r1 EXCEPT !.tools = MapDel(@, name)]
                  IN  IF name \notin DictKeys(rt.state) THEN Raised(r2, "KeyError")
                      ELSE Returned([r2 EXCEPT !.state = DictDel(@, name)])

\* the store the runtime was given has been constructed
Constructed == built.done /\ built.result.raised = "none"

\* a call of a runtime method that does not go through the store's
\* dispatch: `res` is what the method returned or raised
RuntimeCall(op, kind, arg, res) ==
    /\ Constructed
    /\ agent_state' = [agent_state EXCEPT !.items = res.rt.state]
    /\ agents' = res.rt.agents
    /\ tools' = res.rt.tools
    /\ last' = [Observed(op, kind, "na", <<>>, res.raised)
                    EXCEPT !.arg = arg, !.was = <<Runtime>>]
    /\ UNCHANGED <<tree, subscribers, handles, inflight, rounds, seen>>
    /\ UNCHANGED <<built, declared, actions>>
    /\ UNCHANGED <<fanoutVars, nestedVars>>

CreateAgent(name, access) ==
    RuntimeCall("create_agent", name, <<access>>, create_agent(Runtime, name, access))

RemoveAgent(name) ==
    RuntimeCall("remove_agent", name, <<>>, remove_agent(Runtime, name))

\* the tools handed to grant_tool
IncrementTool == [name |-> "increment", kind |-> "action", action |-> "increment",
                  allowed |-> AllAccess]
GrantedTools == {make_should_act_tool(AllAccess), IncrementTool}
ToolNames == {"update_should_act", "increment"}

GrantTool(agent_name, tool) ==
    /\ \A i \in 1..Len(agent_state.items) : Len(agent_state.items[i].tools) < MaxTools
    /\ RuntimeCall("grant_tool", agent_name, <<tool>>, grant_tool(Runtime, agent_name, tool))

RevokeTool(agent_name, tool_name) ==
    RuntimeCall("revoke_tool", agent_name, <<tool_name>>,
                revoke_tool(Runtime, agent_name, tool_name))

\* the scope update_should_act returns
P_agent_state == <<"_state", ".", "agent_state">>

\* the leaves of agent_state a handler of the model can write
StateFields == {"agent_name", "should_act"}
StateLeaves(items) == DictKeys(items) \X StateFields
StateValue(items, l) ==
    IF l[2] = "agent_name" THEN <<DictGet(items, l[1]).name>>
    ELSE <<DictGet(items, l[1]).should_act>>

\* DeepDiff(snapshot, self) below _state.agent_state, Store._process_action
\* for a handler that wrote agent_state only
StateDelta(before, after, scope) ==
    IF scope = {} THEN EmptyDelta
    ELSE [l \in {x \in StateLeaves(before) \cap StateLeaves(after) :
                     StateValue(before, x) # StateValue(after, x)}
             |-> [old |-> StateValue(before, l), new |-> StateValue(after, l)]]

\* a faulty bound closure that validates agent_state again after the handler
StateRoundRevalidates(fin, before, after, scope, subs) ==
    LET delta == StateDelta(before, after, scope)
        n == NotifySubscribers(subs, delta)
        v == ValidateAgentState([type |-> "dict", items |-> after])
    IN  [fin |-> fin, scope |-> scope, changed |-> DOMAIN StateDelta(before, after, {FullDiff}),
         delta |-> delta, calls |-> n.calls,
         raised |-> IF v.raised # "none" THEN v.raised ELSE n.raised]

\* the bound closure for a handler that wrote agent_state:
\* _process_action, then _notify_subscribers
StateRound(fin, before, after, scope, subs) ==
    LET delta == StateDelta(before, after, scope)
        n == NotifySubscribers(subs, delta)
    IN  [fin |-> fin, scope |-> scope, changed |-> DOMAIN StateDelta(before, after, {FullDiff}),
         delta |-> delta, calls |-> n.calls, raised |-> n.raised]

\* _update_should_act_handler: a KeyError for a name that has no entry
update_should_act(items, payload) ==
    IF payload.agent_name \notin DictKeys(items)
    THEN [raised |-> "KeyError", after |-> items, scope |-> NoOp]
    ELSE [raised |-> "none",
          after |-> DictSet(items, [DictGet(items, payload.agent_name)
                                       EXCEPT !.should_act = payload.should_act]),
          scope |-> {P_agent_state}]

\* a dispatch on the store whose handler wrote agent_state (or raised
\* before it wrote)
StateBound(name, h, arg) ==
    LET rs == IF h.raised = "none"
              THEN <<StateRound("handler", agent_state.items, h.after, h.scope, subscribers)>>
              ELSE <<>>
    IN  /\ Constructed
        /\ name \in DOMAIN actions
        /\ agent_state' = [agent_state EXCEPT !.items = h.after]
        /\ last' = [Observed("dispatch", name, "na", rs,
                             IF h.raised = "none" THEN rs[1].raised ELSE h.raised)
                        EXCEPT !.arg = arg, !.was = <<Runtime>>]
        /\ UNCHANGED <<tree, subscribers, handles, inflight, rounds, seen>>
        /\ UNCHANGED <<built, declared, actions>>
        /\ UNCHANGED <<fanoutVars, nestedVars, runtimeVars>>

ShouldActPayloads == [agent_name : RuntimeNames, should_act : BOOLEAN]

\* store.update_should_act(payload), dispatched by the application
UpdateShouldAct(payload) ==
    StateBound("update_should_act", update_should_act(agent_state.items, payload),
               <<payload>>)

\* any handler that assigns an entry's agent_name and returns the
\* agent_state scope
Rename(key, name) ==
    /\ key \in DictKeys(agent_state.items)
    /\ StateBound("mutate",
                  [raised |-> "none",
                   after |-> DictSet(agent_state.items,
                                     [DictGet(agent_state.items, key) EXCEPT !.name = name]),
                   scope |-> {P_agent_state}],
                  <<key, name>>)

\* store.subscribe(callback) on the runtime's store
RuntimeSubscribe(cb) ==
    /\ Constructed
    /\ Subscribe(cb)

\* what a call into the store did: the store after it, the notification
\* rounds it ran, what it raised
StoreState == [items |-> agent_state.items, tree |-> tree]
Outcome(st, rs, raised) == [st |-> st, rounds |-> rs, raised |-> raised]

\* a faulty wrapper that runs the action's handler and leaves the
\* subscribers out
HandlerOnly(action_name, st, payload, subs) ==
    IF action_name = "update_should_act"
    THEN LET h == update_should_act(st.items, payload)
         IN  Outcome([st EXCEPT !.items = h.after], <<>>, h.raised)
    ELSE Outcome([st EXCEPT !.tree = [@ EXCEPT ![L_count] = @ + payload]], <<>>, "none")

\* self._store._actions[action_name](payload): the bound closure of
\* update_should_act or of increment
bound_action(action_name, st, payload, subs) ==
    IF action_name = "update_should_act"
    THEN LET h == update_should_act(st.items, payload)
         IN  IF h.raised # "none" THEN Outcome(st, <<>>, h.raised)
             ELSE LET r == StateRound("handler", st.items, h.after, h.scope, subs)
                  IN  Outcome([st EXCEPT !.items = h.after], <<r>>, r.raised)
    ELSE LET after == [st.tree EXCEPT ![L_count] = @ + payload]
             r == Round("handler", st.tree, after, {P_count}, subs)
         IN  Outcome([st EXCEPT !.tree = after], <<r>>, r.raised)

\* a faulty should_act handler without the allowed_agents test
ToolUnguarded(tool, st, payload, subs) ==
    bound_action(tool.action, st, payload, subs)

\* Tool.__call__(payload): the handler of make_should_act_tool tests the
\* name first, the handler of action_to_tool calls the bound closure
tool_call(tool, st, payload, subs) ==
    IF /\ tool.kind = "should_act"
       /\ ~tool.allowed.all
       /\ payload.agent_name \notin tool.allowed.names
    THEN Outcome(st, <<>>, "ValueError")
    ELSE bound_action(tool.action, st, payload, subs)

\* runtime._tools[agent_name][tool_name](payload)
InvokeTool(agent_name, tool_name, payload) ==
    /\ LET tool == tools[agent_name][tool_name]
           res == tool_call(tool, StoreState, payload, subscribers)
       IN  /\ agent_state' = [agent_state EXCEPT !.items = res.st.items]
           /\ tree' = res.st.tree
           /\ last' = [Observed("tool_call", agent_name, "na", res.rounds, res.raised)
                           EXCEPT !.arg = <<tool, payload>>, !.was = <<Runtime, tree>>]
    /\ UNCHANGED <<subscribers, handles, inflight, rounds, seen>>
    /\ UNCHANGED <<built, declared, actions>>
    /\ UNCHANGED <<fanoutVars, nestedVars, runtimeVars>>

\* a granted tool over update_should_act, called with its payload
InvokeFlagTool(agent_name, tool_name, payload) ==
    /\ Constructed
    /\ agent_name \in DOMAIN tools
    /\ tool_name \in DOMAIN tools[agent_name]
    /\ tools[agent_name][tool_name].action = "update_should_act"
    /\ InvokeTool(agent_name, tool_name, payload)

\* a granted tool over increment, called with an amount
InvokeCounterTool(agent_name, tool_name, n) ==
    /\ Constructed
    /\ agent_name \in DOMAIN tools
    /\ tool_name \in DOMAIN tools[agent_name]
    /\ tools[agent_name][tool_name].action = "increment"
    /\ tree[L_count] + n <= MaxCount
    /\ InvokeTool(agent_name, tool_name, n)

\* the tool calls an LLM response can hold, and the responses of the model
SetFlag(agent_name, should_act) ==
    [tool_name |-> "update_should_act",
     payload |-> [agent_name |-> agent_name, should_act |-> should_act]]
CallIncrement == [tool_name |-> "increment", payload |-> 3]
CallMissing == [tool_name |-> "missing", payload |-> 0]
Responses == {<<>>, <<CallIncrement>>, <<CallMissing>>,
              <<SetFlag("a", FALSE)>>, <<SetFlag("b", FALSE), CallIncrement>>,
              <<CallIncrement, SetFlag("b", TRUE)>>, <<CallIncrement, CallMissing>>}

\* a faulty _validate_response that leaves the test of the tool names to
\* the execution
ValidatesNothing(state, response) == "none"

\* Agent._validate_response, called by Agent.step: every tool call of the
\* response is looked up in the metadata of state.tools before the list is
\* returned
validate_response(state, response) ==
    IF \E k \in 1..Len(response) : response[k].tool_name \notin Range(state.tools)
    THEN "KeyError"
    ELSE "none"

\* for tool_call in tool_calls: tool = self._tools[agent_name][tool_name];
\* tool(payload).  An exception ends the loop and leaves run_once.
RECURSIVE Execute(_, _, _, _, _)
Execute(granted, tool_calls, k, st, subs) ==
    IF k > Len(tool_calls) THEN [st |-> st, executed |-> k - 1, raised |-> "none"]
    ELSE IF tool_calls[k].tool_name \notin DOMAIN granted
         THEN [st |-> st, executed |-> k - 1, raised |-> "KeyError"]
    ELSE LET res == tool_call(granted[tool_calls[k].tool_name], st,
                              tool_calls[k].payload, subs)
         IN  IF res.raised # "none"
             THEN [st |-> res.st, executed |-> k, raised |-> res.raised]
             ELSE Execute(granted, tool_calls, k + 1, res.st, subs)

\* a faulty run_once that decides from the flags as they were when the pass
\* began
ActsAtStart(st, agent_name) ==
    /\ agent_name \in DictKeys(agent_state.items)
    /\ DictGet(agent_state.items, agent_name).should_act

\* state = self.get_agent_state(agent_name); if state and state.should_act
ShouldAct(st, agent_name) ==
    /\ agent_name \in DictKeys(st.items)
    /\ DictGet(st.items, agent_name).should_act

\* one agent of the pass: whether step was called, how many tool calls ran,
\* whether the store is another one after it
Visit(agent_name, stepped, response, executed, raised, changed) ==
    [agent |-> agent_name, stepped |-> stepped, response |-> response,
     executed |-> executed, raised |-> raised, changed |-> changed]

\* AgentRuntime.run_once: for agent_name, agent in self._agents.items()
RECURSIVE run_once(_, _, _, _, _, _)
run_once(rt, i, st, responses, subs, visits) ==
    IF i > Len(rt.agents) THEN [st |-> st, visits |-> visits, raised |-> "none"]
    ELSE LET agent_name == rt.agents[i]
             response == responses[agent_name]
         IN  IF ~ShouldAct(st, agent_name)
             THEN run_once(rt, i + 1, st, responses, subs,
                           Append(visits, Visit(agent_name, FALSE, <<>>, 0, "none", FALSE)))
             ELSE IF validate_response(DictGet(st.items, agent_name), response) # "none"
                  THEN [st |-> st, raised |-> "KeyError",
                        visits |-> Append(visits,
                            Visit(agent_name, TRUE, response, 0, "KeyError", FALSE))]
             ELSE LET x == Execute(rt.tools[agent_name], response, 1, st, subs)
                      v == Visit(agent_name, TRUE, response, x.executed, x.raised, x.st # st)
                  IN  IF x.raised # "none"
                      THEN [st |-> x.st, visits |-> Append(visits, v), raised |-> x.raised]
                      ELSE run_once(rt, i + 1, x.st, responses, subs, Append(visits, v))

\* runtime.run_once(), the LLM clients answering with `responses`
RunOnce(responses) ==
    /\ Constructed
    /\ agents # <<>>
    /\ LET res == run_once(Runtime, 1, StoreState, responses, subscribers, <<>>)
       IN  /\ res.st.tree[L_count] <= MaxCount
           /\ agent_state' = [agent_state EXCEPT !.items = res.st.items]
           /\ tree' = res.st.tree
           /\ last' = [Observed("run_once", "none", "na", <<>>, res.raised)
                           EXCEPT !.arg = res.visits, !.was = <<Runtime, tree>>]
    /\ UNCHANGED <<subscribers, handles, inflight, rounds, seen>>
    /\ UNCHANGED <<built, declared, actions>>
    /\ UNCHANGED <<fanoutVars, nestedVars, runtimeVars>>

\* a faulty action_to_tool without the test of the name
WrapsAnyName(acts, action_name, tool_name) ==
    [raised |-> "none",
     made |-> <<[name |-> IF tool_name = "" THEN action_name ELSE tool_name,
                 kind |-> "action", action |-> action_name, allowed |-> AllAccess]>>]

\* AgentRuntime.action_to_tool: the Tool whose handler calls
\* self._store._actions[action_name]; name = tool_name or action_name
action_to_tool(acts, action_name, tool_name) ==
    IF action_name \notin DOMAIN acts THEN [raised |-> "KeyError", made |-> <<>>]
    ELSE [raised |-> "none",
          made |-> <<[name |-> IF tool_name = "" THEN action_name ELSE tool_name,
                      kind |-> "action", action |-> action_name, allowed |-> AllAccess]>>]

\* the names action_to_tool is asked for: two sync actions of the store, an
\* async action (bound by _bind_async_actions, not in _actions), no action
WrappedNames == {"increment", "update_should_act", "fetch", "nonexistent"}
ToolNameArgs == {"", "add"}

ActionToTool(action_name, tool_name) ==
    /\ Constructed
    /\ last' = [Observed("action_to_tool", action_name, "na", <<>>,
                         action_to_tool(actions, action_name, tool_name).raised)
                    EXCEPT !.arg = action_to_tool(actions, action_name, tool_name).made,
                           !.task = tool_name]
    /\ UNCHANGED <<tree, subscribers, handles, inflight, rounds, seen>>
    /\ UNCHANGED <<fanoutVars, validationVars, runtimeVars, nestedVars>>

\* runtime.grant_tool(agent_name, tool) with the tool action_to_tool
\* returned
GrantMade(agent_name) ==
    /\ last.op = "action_to_tool"
    /\ last.arg # <<>>
    /\ GrantTool(agent_name, last.arg[1])

\* a store with an empty agent_state and the update_should_act action, about
\* to be constructed and handed to AgentRuntime(store)
RuntimeActions == Append(StoreActions,
                         [name |-> "update_should_act", handler |-> "update_should_act"])

RuntimeInit ==
    /\ InitStore
    /\ agent_state = [type |-> "dict", items |-> <<>>]
    /\ built = NotBuilt
    /\ declared = RuntimeActions
    /\ actions = <<>>

RuntimeNext ==
    \/ Construct
    \/ \E name \in RuntimeNames, access \in Access : CreateAgent(name, access)
    \/ \E name \in RuntimeNames : RemoveAgent(name)
    \/ \E name \in RuntimeNames, tool \in GrantedTools : GrantTool(name, tool)
    \/ \E name \in RuntimeNames, tool_name \in ToolNames : RevokeTool(name, tool_name)

RuntimeSpec == RuntimeInit /\ [][RuntimeNext]_vars

\* the life of a store beside its runtime: constructed once, then agents
\* come and go and handlers write agent_state
LifecycleNext ==
    \/ Construct
    \/ \E name \in RuntimeNames : CreateAgent(name, NoAccess)
    \/ \E name \in RuntimeNames : RemoveAgent(name)
    \/ \E key \in RuntimeNames, name \in AgentNames : Rename(key, name)
    \/ \E payload \in ShouldActPayloads : UpdateShouldAct(payload)
    \/ \E cb \in Callbacks : RuntimeSubscribe(cb)

LifecycleSpec == RuntimeInit /\ [][LifecycleNext]_vars

\* agents created with any should_act_access, whose tools are then called
ShouldActNext ==
    \/ Construct
    \/ \E name \in RuntimeNames, access \in Access : CreateAgent(name, access)
    \/ \E cb \in Callbacks : RuntimeSubscribe(cb)
    \/ \E name \in RuntimeNames, payload \in ShouldActPayloads :
          InvokeFlagTool(name, "update_should_act", payload)

ShouldActSpec == RuntimeInit /\ [][ShouldActNext]_vars

\* agents with tools, flags set by the application, passes of run_once
RunNext ==
    \/ Construct
    \/ \E name \in RuntimeNames, access \in {NoAccess, AllAccess} : CreateAgent(name, access)
    \/ \E name \in RuntimeNames : GrantTool(name, IncrementTool)
    \/ \E payload \in ShouldActPayloads : UpdateShouldAct(payload)
    \/ \E responses \in [RuntimeNames -> Responses] : RunOnce(responses)

RunSpec == RuntimeInit /\ [][RunNext]_vars

\* store actions wrapped as tools, granted to the one agent and called
ToolNext ==
    \/ Construct
    \/ CreateAgent("a", NoAccess)
    \/ \E cb \in Callbacks : RuntimeSubscribe(cb)
    \/ \E action_name \in WrappedNames, tool_name \in ToolNameArgs :
          ActionToTool(action_name, tool_name)
    \/ \E name \in RuntimeNames : GrantMade(name)
    \/ \E tool_name \in ToolNames \cup ToolNameArgs, payload \in ShouldActPayloads :
          InvokeFlagTool("a", tool_name, payload)
    \/ \E tool_name \in ToolNames \cup ToolNameArgs : InvokeCounterTool("a", tool_name, 3)

ToolSpec == RuntimeInit /\ [][ToolNext]_vars

-----------------------------------------------------------------------------
(* Vocabulary of the properties *)

\* path (a dot string) is the declared path p or lies under it: p followed
\* by further dot-separated segments
SegUnder(path, p) == path = p \/ StartsWith(path, p \o <<".">>)

\* the leaf is inside the declared scope, read by segments
InsideScope(l, scope) ==
    FullDiff \in scope \/ \E p \in scope : SegUnder(Join(l), p)

\* the callbacks of the list up to and including the first one that raises
UpToFirstRaiser(subs) ==
    IF \E i \in 1..Len(subs) : Raises(subs[i])
    THEN SubSeq(subs, 1, CHOOSE i \in 1..Len(subs) :
                            Raises(subs[i]) /\ \A j \in 1..(i - 1) : ~Raises(subs[j]))
    ELSE subs

NoRaiser(subs) == \A i \in 1..Len(subs) : ~Raises(subs[i])

IsDispatch == last.op \in {"dispatch", "dispatchAsync"}

Notified(r) == DOMAIN r.delta # {}

-----------------------------------------------------------------------------
(* C1: a handler that returns the empty scope never gets a subscriber      *)
(* called, whatever it wrote to the tree and however often it is           *)
(* dispatched: no round with an empty scope has a call, and as long as no  *)
(* round has notified since the list changed, no callback has been called. *)
C1_NoOpNeverNotifies ==
    /\ \A k \in 1..Len(last.rounds) :
          last.rounds[k].scope = NoOp =>
              /\ last.rounds[k].calls = <<>>
              /\ last.rounds[k].delta = EmptyDelta
    /\ rounds = 0 => \A cb \in Callbacks : seen[cb] = 0

C1_Witness ==
    /\ last.op = "dispatch"
    /\ Len(last.rounds) = 1
    /\ last.rounds[1].scope = NoOp
    /\ last.rounds[1].changed # {}
    /\ Len(subscribers) = 2
    /\ rounds = 0

(* C2: with a scope of specific paths, every path of the Delta is a        *)
(* declared path or lies under one, by dot-separated segments.             *)
C2_DeltaWithinScope ==
    \A k \in 1..Len(last.rounds) :
        LET r == last.rounds[k]
        IN  (r.scope # NoOp /\ FullDiff \notin r.scope) =>
                \A l \in DOMAIN r.delta : \E p \in r.scope : SegUnder(Join(l), p)

(* C6: calling an unsubscribe handle again raises nothing and leaves the   *)
(* subscriber list as it was.                                              *)
C6_SecondUnsubscribeIsNoOp ==
    (last.op = "unsubscribe" /\ last.again) =>
        (last.raised = "none" /\ ~last.removed)

(* C9: a non-empty scope inside which no leaf changed gives an empty Delta *)
(* and no callback is called; what was written outside stays in the tree.  *)
C9_NothingInScopeNoNotify ==
    \A k \in 1..Len(last.rounds) :
        LET r == last.rounds[k]
        IN  (r.scope # NoOp /\ \A l \in r.changed : ~InsideScope(l, r.scope)) =>
                (r.delta = EmptyDelta /\ r.calls = <<>>)

C4_ErrorRethrown ==
    (last.op = "dispatchAsync" /\ last.read = "raise" /\ last.kind # "declared") =>
        /\ last.raised = "ReadError"
        /\ \A k \in 1..Len(last.rounds) :
              last.rounds[k].changed = {} /\ last.rounds[k].calls = <<>>

(* C5 as stated: a read phase that raises, under a declared error          *)
(* finalizer, runs that finalizer once and no success finalizer, returns   *)
(* normally, and every subscriber is called exactly once.                  *)
C5_ErrorPathNotifiesAll ==
    (last.op = "dispatchAsync" /\ last.read = "raise" /\ last.kind = "declared") =>
        /\ Len(last.rounds) = 1
        /\ last.rounds[1].fin = "on_error"
        /\ last.raised = "none"
        /\ last.rounds[1].calls = subscribers

(* C5 as amended: the error finalizer is run once, through snapshot,       *)
(* finalizer, diff and notify, and the success finalizer is not run; the   *)
(* error field holds what the finalizer wrote; when the finalizer's Delta  *)
(* is empty nobody is called and the dispatch returns normally; when it is *)
(* non-empty the subscribers are called in order, each once, with that     *)
(* Delta, up to and including the first one that raises, and the dispatch  *)
(* returns normally exactly when none of them raises.                      *)
C5_ErrorPath ==
    (last.op = "dispatchAsync" /\ last.read = "raise" /\ last.kind = "declared") =>
        LET r == last.rounds[1]
        IN  /\ Len(last.rounds) = 1
            /\ r.fin = "on_error"
            /\ r.scope = {P_username}
            /\ tree[L_username] = 1
            /\ DOMAIN r.delta = r.changed
            /\ r.calls = IF Notified(r) THEN UpToFirstRaiser(subscribers) ELSE <<>>
            /\ last.raised = IF Notified(r) /\ ~NoRaiser(subscribers)
                             THEN "CallbackError" ELSE "none"

C5_Witness ==
    /\ last.op = "dispatchAsync"
    /\ last.read = "raise"
    /\ last.kind = "declared"
    /\ Notified(last.rounds[1])
    /\ Len(subscribers) = 2
    /\ last.rounds[1].calls = subscribers
    /\ last.raised = "none"

C11_FanoutAccounting ==
    /\ (last.op = "create" /\ last.raised = "none") =>
           /\ DOMAIN registry[last.kind] = last.arg[1].names
           /\ \A t \in last.arg[1].names : ~registry[last.kind][t].resolved
    /\ (last.op = "resolve" /\ last.raised = "none") =>
           LET a == last.arg[1]
               pre == last.was[1].registry[last.kind]
               now == [pre EXCEPT ![a.task] = [resolved |-> TRUE,
                                               success |-> a.success,
                                               result |-> a.result]]
           IN  IF last.completed = <<>>
               THEN registry[last.kind] = now
               ELSE LET res == last.completed[1]
                    IN  /\ res.fanout_id = last.kind
                        /\ res.tasks = now
                        /\ \A t \in DOMAIN now : now[t].resolved
                        /\ res.success_count + res.failure_count = Cardinality(DOMAIN pre)
                        /\ res.success_count = Cardinality({t \in DOMAIN now : now[t].success})
                        /\ res.all_succeeded <=> (res.failure_count = 0)

\* two tasks, one resolved as a success with "x", the other as a failure with "y"
C11_Witness ==
    /\ last.op = "resolve"
    /\ last.completed # <<>>
    /\ last.completed[1].success_count = 1
    /\ last.completed[1].failure_count = 1
    /\ ~last.completed[1].all_succeeded
    /\ last.completed[1].tasks["a"] = [resolved |-> TRUE, success |-> TRUE, result |-> "x"]
    /\ last.completed[1].tasks["b"] = [resolved |-> TRUE, success |-> FALSE, result |-> "y"]

(* C12: a resolver called for a task that is already resolved, while the   *)
(* fanout is pending, raises "already resolved" and changes nothing: the   *)
(* registration, the subscriber list and the on_complete count are as the  *)
(* call found them.                                                        *)
C12_AlreadyResolvedRaises ==
    (/\ last.op = "resolve"
     /\ last.kind \in DOMAIN last.was[1].registry
     /\ last.task \in DOMAIN last.was[1].registry[last.kind]
     /\ last.was[1].registry[last.kind][last.task].resolved) =>
        /\ last.raised = "RuntimeError"
        /\ last.completed = <<>>
        /\ registry = last.was[1].registry
        /\ subscribers = last.was[1].subscribers
        /\ fanoutLog = last.was[1].log

\* task a of a two-task fanout is resolved a second time while b is open
C12_Witness ==
    /\ last.op = "resolve"
    /\ last.raised = "RuntimeError"
    /\ last.task = "a"
    /\ last.again
    /\ last.kind \in DOMAIN registry
    /\ registry[last.kind]["a"].resolved
    /\ "b" \in DOMAIN registry[last.kind]
    /\ ~registry[last.kind]["b"].resolved

C15_DuplicateAndUnknownRaise ==
    /\ (last.op = "create" /\ last.kind \in DOMAIN last.was[1].registry) =>
           /\ last.raised = "ValueError"
           /\ registry = last.was[1].registry
           /\ subscribers = last.was[1].subscribers
           /\ fanoutLog = last.was[1].log
    /\ (/\ last.op = "make_resolver"
        /\ \/ last.kind \notin DOMAIN last.was[1].registry
           \/ last.task \notin DOMAIN last.was[1].registry[last.kind]) =>
           /\ last.raised = "ValueError"
           /\ registry = last.was[1].registry
           /\ subscribers = last.was[1].subscribers
           /\ \A r \in resolvers :
                 /\ r.fanout \in FanoutIds
                 /\ r.inst \in 1..fanoutLog[r.fanout].created

\* create of the active f1, whose task a is already resolved, raised
C15_Witness ==
    /\ last.op = "create"
    /\ last.kind = "f1"
    /\ last.raised = "ValueError"
    /\ DOMAIN registry["f1"] = {"a", "b"}
    /\ registry["f1"]["a"].resolved

(* C16: an exception raised inside a sync handler reaches the caller of   *)
(* the dispatch as it is, no diff is computed and no subscriber is called, *)
(* and what the handler wrote before it raised is in the tree.             *)
C16_HandlerErrorPropagates ==
    (last.op = "dispatch" /\ last.kind = "mutate_raises") =>
        /\ last.raised = "HandlerError"
        /\ last.rounds = <<>>
        /\ tree = last.arg[1].written

\* the handler wrote both entries of d before it raised, two subscribers
C16_Witness ==
    /\ last.op = "dispatch"
    /\ last.kind = "mutate_raises"
    /\ last.arg[1].changed = {L_user, L_username}
    /\ tree[L_user] = 1
    /\ tree[L_username] = 1
    /\ Len(subscribers) = 2

(* C17: an exception raised by a subscriber in a notification round        *)
(* reaches the caller of the dispatch, sync or async; the mutation of the  *)
(* round stays applied and the subscribers after the raising one are not   *)
(* called in that round.                                                   *)
C17_SubscriberErrorReachesCaller ==
    IsDispatch =>
        \A k \in 1..Len(last.rounds) :
            last.rounds[k].raised # "none" =>
                /\ last.raised = last.rounds[k].raised
                /\ last.rounds[k].calls = UpToFirstRaiser(subscribers)
                /\ \A l \in DOMAIN last.rounds[k].delta :
                      tree[l] = last.rounds[k].delta[l].new

(* C18: with several dispatchAsync calls in flight, the Delta delivered    *)
(* for a call holds exactly the leaves its own finalizer changed, with the *)
(* values the finalizer found and left: the success finalizer of a call    *)
(* changes the call's own leaf only, and nothing another call's finalizer  *)
(* wrote while this call was suspended is in the Delta.                    *)
C18_DeltaIsOwnFinalizers ==
    last.op = "dispatchAsync" =>
        \A k \in 1..Len(last.rounds) :
            LET r == last.rounds[k]
            IN  /\ DOMAIN r.delta = r.changed
                /\ r.fin = "on_success" => r.changed \subseteq {OwnLeaf(last.task)}
                /\ r.fin = "on_error" => r.changed \subseteq {L_username}
                /\ \A l \in DOMAIN r.delta :
                      /\ r.delta[l].old # r.delta[l].new
                      /\ k = Len(last.rounds) => tree[l] = r.delta[l].new

\* t1 is suspended in its read phase, d['u'] was written earlier; the call
\* t2 resolves and its full diff holds d['un'] alone
C18_Witness ==
    /\ last.op = "dispatchAsync"
    /\ last.task = "t2"
    /\ last.arg[1].suspended = {"t1"}
    /\ tree[L_user] = 1
    /\ last.read = "ok"
    /\ last.rounds[1].scope = {FullDiff}
    /\ DOMAIN last.rounds[1].delta = {L_username}
    /\ last.rounds[1].calls = <<"cb1", "cb2">>

(* C19: a dispatchAsync whose read phase is cancelled runs neither         *)
(* finalizer, leaves the tree as it was and calls no subscriber; the       *)
(* cancellation reaches the awaiting caller.                               *)
C19_CancelledRunsNothing ==
    (last.op = "dispatchAsync" /\ last.read = "cancel") =>
        /\ last.rounds = <<>>
        /\ last.raised = "CancelledError"
        /\ tree = last.was[1].tree

\* a call with a declared error finalizer is cancelled, with two
\* subscribers registered and the other call still suspended
C19_Witness ==
    /\ last.op = "dispatchAsync"
    /\ last.read = "cancel"
    /\ last.kind = "declared"
    /\ last.task = "t1"
    /\ last.arg[1].suspended = {"t2"}
    /\ Len(subscribers) = 2
    /\ tree[L_username] = 0

(* C20: constructing a store whose agent_state is a dict of AgentStates   *)
(* raises a ValueError naming the key and the agent_name of an entry whose *)
(* key differs from its agent_name whenever there is such an entry, also   *)
(* beside valid entries, and then no dispatch ever runs; a dict whose      *)
(* every key equals its entry's agent_name, the empty dict included,       *)
(* constructs without error.  Agents.validate decides these the same way.  *)
C20_MismatchRaisesValueError ==
    LET items == agent_state.items
        AllAgents == \A i \in 1..Len(items) : items[i].isAgent
        Mismatched == {i \in 1..Len(items) : items[i].key # items[i].name}
        Expected(res) ==
            IF Mismatched = {} THEN res.raised = "none"
            ELSE /\ res.raised = "ValueError"
                 /\ \E i \in Mismatched : res.key = items[i].key /\ res.name = items[i].name
    IN  /\ (built.done /\ agent_state.type = "dict" /\ AllAgents) =>
               /\ Expected(built.result)
               /\ Expected(AgentsValidate(agent_state))
        /\ last.op = "dispatch" => (built.done /\ built.result.raised = "none")
        /\ ~built.done => last.op \in {"init", "validate"}

\* {"a": AgentState("a"), "b": AgentState("z")}: the error names b and z
C20_Witness ==
    /\ built.done
    /\ agent_state = [type |-> "dict",
                      items |-> <<[key |-> "a", isAgent |-> TRUE, name |-> "a"],
                                  [key |-> "b", isAgent |-> TRUE, name |-> "z"]>>]
    /\ built.result = [raised |-> "ValueError", key |-> "b", name |-> "z"]
    /\ last.op = "construct"

(* C21: construction raises a TypeError for every agent_state value that   *)
(* is not a map (a list, a string, a number, empty or not), and for a map  *)
(* with an entry whose value is not an AgentState; so do Agents.validate   *)
(* and validate_agent_state when they are given that value.                *)
C21_NonMapRaisesTypeError ==
    LET items == agent_state.items
        NotAMap == agent_state.type \notin {"none", "dict"}
        \* an entry that is not an AgentState, after entries that are valid
        BadEntry == /\ agent_state.type = "dict"
                    /\ \E i \in 1..Len(items) :
                           /\ ~items[i].isAgent
                           /\ \A j \in 1..(i - 1) :
                                  items[j].isAgent /\ items[j].key = items[j].name
    IN  /\ (built.done /\ (NotAMap \/ BadEntry)) => built.result.raised = "TypeError"
        /\ (last.op = "validate" /\ (NotAMap \/ BadEntry)) => last.raised = "TypeError"

(* C22: for one handler body run on one starting tree, the Delta under the *)
(* full-tree marker is every changed leaf with its old and new value, also *)
(* when the marker stands beside specific paths, and the Delta under any   *)
(* other scope is a part of it; so the full-diff Delta contains every      *)
(* changed path of the Delta of a correct narrow scope.                    *)
C22_FullDiffIsSuperset ==
    (last.op = "dispatch" /\ last.was # <<>>) =>
        LET before == last.was[1].tree
            r == last.rounds[1]
            Changed == {l \in Leaves : before[l] # tree[l]}
            Full == [l \in Changed |-> [old |-> before[l], new |-> tree[l]]]
        IN  /\ FullDiff \in r.scope => r.delta = Full
            /\ DOMAIN r.delta \subseteq DOMAIN Full
            /\ \A l \in DOMAIN r.delta : r.delta[l] = Full[l]
            /\ (\A l \in Changed : InsideScope(l, r.scope)) =>
                   DOMAIN r.delta = DOMAIN Full

\* the marker beside a path that did not change: d['u'] is still reported
C22_Witness ==
    /\ last.op = "dispatch"
    /\ last.was # <<>>
    /\ last.rounds[1].scope = {FullDiff, P_count}
    /\ DOMAIN last.rounds[1].delta = {L_user, L_username}
    /\ last.rounds[1].calls = <<"cb1">>

(* C23: when a name is declared a second time, binding fails with a       *)
(* DuplicateNameError and the descriptor declared first stays bound to     *)
(* the name.                                                               *)
C23_DuplicateNameRejected ==
    built.done =>
        \A i, j \in 1..Len(declared) :
            (i < j /\ declared[i].name = declared[j].name) =>
                /\ last.op = "construct" => last.raised = "DuplicateNameError"
                /\ actions[declared[i].name] = declared[i].handler

(* C24: calling an Action descriptor itself, not the closure bound to a   *)
(* store, raises the RuntimeError, leaves the tree as it was and runs no   *)
(* notification round.                                                     *)
C24_UnboundCallRaises ==
    last.op = "call_unbound" =>
        /\ last.raised = "RuntimeError"
        /\ tree = last.was[1].tree
        /\ last.rounds = <<>>

C24_Witness ==
    /\ last.op = "call_unbound"
    /\ last.raised = "RuntimeError"
    /\ Len(subscribers) = 2
    /\ tree[L_user] = 1
    /\ seen["cb1"] = 1

(* C25: affects(q) is False when q is the path of a leaf the dispatch did   *)
(* not change (a leaf is neither above nor below another leaf).            *)
C25_UnchangedLeafNotAffected ==
    (last.op = "dispatch" /\ last.arg # <<>>) =>
        LET q == last.arg[1].asked
            r == last.rounds[1]
        IN  (\E l \in Leaves \ r.changed : q = Join(l)) => ~last.arg[1].answer

(* C26: affects(q) is True when q is the dot path of a leaf of the Delta,  *)
(* a leading part of it by segments, or one key name of it; and it is      *)
(* False for every q when the Delta is empty.                              *)
C26_AffectsPathAncestorOrKey ==
    (last.op = "dispatch" /\ last.arg # <<>>) =>
        LET q == last.arg[1].asked
            delta == last.rounds[1].delta
            Named(l) == \/ q = Join(l)
                        \/ \E k \in 1..Len(l) : q = Join(SubSeq(l, 1, k))
                        \/ \E k \in 1..Len(l) : q = l[k]
        IN  /\ (\E l \in DOMAIN delta : Named(l)) => last.arg[1].answer
            /\ DOMAIN delta = {} => ~last.arg[1].answer

\* only d['un'] changed, and a callback asks about the key name "un"
C26_Witness ==
    /\ last.op = "dispatch"
    /\ last.arg # <<>>
    /\ DOMAIN last.rounds[1].delta = {L_username}
    /\ last.arg[1].asked = <<"u", "n">>
    /\ last.arg[1].answer
    /\ last.rounds[1].calls = <<"cb1">>

(* C27: in dispatchAsync the error finalizer runs only when the read      *)
(* phase raised; when the read phase returned, whatever is raised after it *)
(* (by a subscriber of the success round) runs no error finalizer and no   *)
(* second notification round.                                              *)
C27_ErrorFinalizerOnlyForReadErrors ==
    last.op = "dispatchAsync" =>
        /\ (\E k \in 1..Len(last.rounds) : last.rounds[k].fin = "on_error") =>
               last.read = "raise"
        /\ Cardinality({k \in 1..Len(last.rounds) : last.rounds[k].calls # <<>>}) <= 1

(* C28: a callback that unsubscribes itself or another callback during a   *)
(* notification round makes no other callback miss the round: every        *)
(* callback that was registered when the round started and is still        *)
(* registered when it ends was invoked exactly once in it.                 *)
C28_UnsubscribeSkipsNobody ==
    last.op = "round" =>
        \A cb \in Range(last.arg[1].start) \cap Range(last.arg[1].final) :
            Occurrences(last.arg[1].called, cb) = 1

(* C29: when a callback dispatches from inside a notification, every       *)
(* subscriber is notified of the mutations in the order in which they were *)
(* applied: nobody hears of the nested change before the outer one.        *)
C29_NotifiedInMutationOrder ==
    \A i, j \in 1..Len(log) :
        (i < j /\ log[i].cb = log[j].cb) => log[i].seq <= log[j].seq

(* C30: a dispatch of update_text on ExactLengthStore ends; it dispatches  *)
(* update_wordcount at most once, and only when current_text changed; the  *)
(* nested notification dispatches nothing further; and when update_text    *)
(* returns, wordcount is get_wordcount(current_text).                      *)
C30_UpdateTextSettlesWordcount ==
    /\ Len(stack) <= 2
    /\ exact.nested <= 1
    /\ (last.op = "dispatch" /\ ~last.arg[1].changed) => exact.nested = 0
    /\ (stack = <<>> /\ last.op \in {"dispatch", "round"}) =>
           exact.state[X_count] = GetWordcount(exact.state[X_text])

(* C31: a write made during the async read phase stays in the tree and is *)
(* in no Delta of that dispatch: the Delta of the success round holds only *)
(* what on_success changed, and when on_success changed nothing no         *)
(* callback is invoked for the read-phase write.                           *)
C31_ReadPhaseWriteUnreported ==
    (last.op = "dispatchAsync" /\ last.read = "ok" /\ last.was # <<>>) =>
        LET w == last.was[1].written
            a == last.was[1].finalized
            r == last.rounds[1]
        IN  /\ tree[L_count] = ReadValue
            /\ \A k \in 1..Len(last.rounds) : L_count \notin DOMAIN last.rounds[k].delta
            /\ \A l \in DOMAIN r.delta :
                  /\ w[l] # a[l]
                  /\ r.delta[l] = [old |-> w[l], new |-> a[l]]
            /\ w = a => r.calls = <<>>

\* the handler set c from 3 to 7, on_success changed d['u'] and returned the
\* full-tree marker: the two callbacks received a Delta of d['u'] alone
C31_Witness ==
    /\ last.op = "dispatchAsync"
    /\ last.read = "ok"
    /\ last.was # <<>>
    /\ last.was[1].before[L_count] = 3
    /\ last.rounds[1].scope = {FullDiff}
    /\ DOMAIN last.rounds[1].delta = {L_user}
    /\ last.rounds[1].calls = <<"cb1", "cb2">>

(* C33: after any sequence of create_agent and remove_agent calls the     *)
(* runtime's agent table, its tool table and the store's agent_state have  *)
(* the same keys, and every agent_state entry's agent_name is its key;     *)
(* create_agent with an existing name raises ValueError, remove_agent with *)
(* an unknown name raises KeyError, and each of them changes nothing.      *)
C33_TablesAgree ==
    /\ DictKeys(agent_state.items) = Range(agents)
    /\ DOMAIN tools = Range(agents)
    /\ Len(agents) = Cardinality(Range(agents))
    /\ Len(agent_state.items) = Cardinality(Range(agents))
    /\ \A i \in 1..Len(agent_state.items) :
          agent_state.items[i].name = agent_state.items[i].key
    /\ last.op = "create_agent" =>
          IF last.kind \in Range(last.was[1].agents)
          THEN last.raised = "ValueError" /\ Runtime = last.was[1]
          ELSE last.raised = "none" /\ last.kind \in Range(agents)
    /\ last.op = "remove_agent" =>
          IF last.kind \notin Range(last.was[1].agents)
          THEN last.raised = "KeyError" /\ Runtime = last.was[1]
          ELSE last.raised = "none" /\ last.kind \notin Range(agents)

\* create_agent("b") was refused beside a and b, b holding a tool
C33_Witness ==
    /\ last.op = "create_agent"
    /\ last.kind = "b"
    /\ last.raised = "ValueError"
    /\ agents = <<"a", "b">>
    /\ DOMAIN tools["b"] = {"update_should_act"}

(* C34: after any sequence of grant_tool and revoke_tool calls, the tool   *)
(* names in an agent's state metadata are the tool names whose handlers    *)
(* the runtime holds for it; grant_tool for an unknown agent, revoke_tool  *)
(* for an unknown agent or for a tool that is not granted raise KeyError   *)
(* and change neither side.                                                *)
C34_MetadataMatchesHandlers ==
    /\ \A i \in 1..Len(agent_state.items) :
          LET state == agent_state.items[i]
          IN  /\ state.key \in DOMAIN tools
              /\ Range(state.tools) = DOMAIN tools[state.key]
    /\ last.op = "grant_tool" =>
          IF last.kind \notin Range(last.was[1].agents)
          THEN last.raised = "KeyError" /\ Runtime = last.was[1]
          ELSE /\ last.raised = "none"
               /\ last.arg[1].name \in DOMAIN tools[last.kind]
               /\ tools[last.kind][last.arg[1].name] = last.arg[1]
    /\ last.op = "revoke_tool" =>
          IF \/ last.kind \notin Range(last.was[1].agents)
             \/ last.arg[1] \notin DOMAIN last.was[1].tools[last.kind]
          THEN last.raised = "KeyError" /\ Runtime = last.was[1]
          ELSE /\ last.raised = "none"
               /\ last.arg[1] \notin DOMAIN tools[last.kind]
               /\ last.arg[1] \notin Range(DictGet(agent_state.items, last.kind).tools)

\* increment was granted twice to a, which held update_should_act, and then
\* revoked: both metadata entries went with the one handler
C34_Witness ==
    /\ last.op = "revoke_tool"
    /\ last.kind = "a"
    /\ last.arg = <<"increment">>
    /\ last.raised = "none"
    /\ DictGet(last.was[1].state, "a").tools = <<"increment", "increment">>
    /\ DictGet(agent_state.items, "a").tools = <<>>

(* C32: the name validation runs once, in the construction and before   *)
(* any dispatch; no dispatch, create_agent or remove_agent runs it again:  *)
(* a handler that makes a key differ from its entry's agent_name raises    *)
(* nothing, and neither does any call made while the names disagree.       *)
C32_ValidatedOnceAtConstruction ==
    LET Mismatch == ValidateAgentState(agent_state).raised = "ValueError"
    IN  /\ ~built.done => last.op = "init"
        /\ built.done => built.result = Passed
        /\ (last.op = "dispatch" /\ Len(last.rounds) = 1) =>
              /\ last.raised = last.rounds[1].raised
              /\ last.raised = "none" \/ "bad" \in Range(last.rounds[1].calls)
              /\ agent_state.items # last.was[1].state =>
                    Len(last.rounds[1].calls) >= Len(subscribers) - Occurrences(subscribers, "bad")
                    \/ "bad" \in Range(last.rounds[1].calls)
        /\ (last.op = "dispatch" /\ last.kind = "mutate" /\ last.arg[1] # last.arg[2]) =>
              Mismatch
        /\ last.op = "create_agent" =>
              (last.raised = "none" <=> last.kind \notin Range(last.was[1].agents))
        /\ last.op = "remove_agent" =>
              (last.raised = "none" <=> last.kind \in Range(last.was[1].agents))

\* agent_state['a'].agent_name was set to 'z' with cb1 subscribed: cb1 was
\* called, nothing was raised, and create_agent('b') went through after it
C32_Witness ==
    /\ last.op = "create_agent"
    /\ last.kind = "b"
    /\ last.raised = "none"
    /\ agents = <<"a", "b">>
    /\ DictGet(agent_state.items, "a").name = "z"
    /\ subscribers = <<"cb1">>
    /\ ValidateAgentState(agent_state).raised = "ValueError"

(* C35: the should_act tool made for an allowed set A changes the flag   *)
(* of no agent outside A: a call that names such an agent raises           *)
(* ValueError, dispatches nothing and calls no subscriber; with 'all' the  *)
(* flag of any agent is set; an agent created with the empty set is        *)
(* granted no should_act tool.                                             *)
C35_ShouldActOnlyAllowed ==
    LET Flag(items, n) == DictGet(items, n).should_act
    IN  /\ last.op = "tool_call" =>
              LET tool == last.arg[1]
                  payload == last.arg[2]
                  before == last.was[1].state
                  Outside(n) == ~tool.allowed.all /\ n \notin tool.allowed.names
              IN  /\ \A n \in DictKeys(before) :
                        Outside(n) => Flag(agent_state.items, n) = Flag(before, n)
                  /\ Outside(payload.agent_name) =>
                        /\ last.raised = "ValueError"
                        /\ last.rounds = <<>>
                        /\ agent_state.items = before
                        /\ tree = last.was[2]
                  /\ (~Outside(payload.agent_name) /\ payload.agent_name \in DictKeys(before)) =>
                        /\ Flag(agent_state.items, payload.agent_name) = payload.should_act
                        /\ Len(last.rounds) = 1
        /\ (last.op = "create_agent" /\ last.raised = "none") =>
              LET access == last.arg[1]
                  state == DictGet(agent_state.items, last.kind)
              IN  IF access = NoAccess
                  THEN tools[last.kind] = <<>> /\ state.tools = <<>>
                  ELSE /\ DOMAIN tools[last.kind] = {"update_should_act"}
                       /\ tools[last.kind]["update_should_act"].allowed = access
                       /\ state.tools = <<"update_should_act">>

\* b, created with access {a}, asked for b's own flag while cb1 was
\* subscribed and a's flag was set: ValueError
C35_Witness ==
    /\ last.op = "tool_call"
    /\ last.kind = "b"
    /\ last.arg[1].allowed = [all |-> FALSE, names |-> {"a"}]
    /\ last.arg[2] = [agent_name |-> "b", should_act |-> TRUE]
    /\ last.raised = "ValueError"
    /\ subscribers = <<"cb1">>
    /\ agents = <<"a", "b">>
    /\ DictGet(agent_state.items, "a").should_act = TRUE

\* the tool calls that ran in the first k visits of a pass, in order
RECURSIVE ExecutedUpTo(_, _)
ExecutedUpTo(visits, k) ==
    IF k = 0 THEN <<>>
    ELSE ExecutedUpTo(visits, k - 1) \o SubSeq(visits[k].response, 1, visits[k].executed)

\* an agent's flag after these tool calls ran, in order
RECURSIVE FlagAfter(_, _, _)
FlagAfter(flag, agent_name, calls) ==
    IF calls = <<>> THEN flag
    ELSE FlagAfter(IF /\ Head(calls).tool_name = "update_should_act"
                      /\ Head(calls).payload.agent_name = agent_name
                   THEN Head(calls).payload.should_act
                   ELSE flag,
                   agent_name, Tail(calls))

IncrementsIn(calls) ==
    Cardinality({k \in 1..Len(calls) : calls[k].tool_name = "increment"})

(* C36: a pass of run_once visits the agents in creation order; it calls  *)
(* step on an agent exactly when the agent's flag is true as the tool      *)
(* calls of the agents before it left it; a stepped agent's tool calls run *)
(* in response order before the next agent is looked at; the flags after   *)
(* the pass are the flags before it as changed by the executed tool calls. *)
C36_RunOnceInCreationOrder ==
    (last.op = "run_once") =>
        LET visits == last.arg
            before == last.was[1].state
            Reached(k) == FlagAfter(DictGet(before, visits[k].agent).should_act,
                                    visits[k].agent, ExecutedUpTo(visits, k - 1))
        IN  /\ Len(visits) <= Len(agents)
            /\ last.raised = "none" => Len(visits) = Len(agents)
            /\ \A k \in 1..Len(visits) :
                  /\ visits[k].agent = agents[k]
                  /\ visits[k].stepped <=> Reached(k)
                  /\ ~visits[k].stepped => visits[k].executed = 0
                  /\ k < Len(visits) => visits[k].raised = "none"
                  /\ visits[k].raised = "none" => visits[k].executed = Len(visits[k].response)
            /\ visits[Len(visits)].raised = last.raised
            /\ \A i \in 1..Len(agent_state.items) :
                  LET state == agent_state.items[i]
                  IN  state.should_act =
                          FlagAfter(DictGet(before, state.key).should_act, state.key,
                                    ExecutedUpTo(visits, Len(visits)))
            /\ tree[L_count] = last.was[2][L_count]
                                   + 3 * IncrementsIn(ExecutedUpTo(visits, Len(visits)))

\* a, whose flag was set, incremented and then set b's flag; b, whose flag
\* was not set when the pass began, was stepped in the same pass
C36_Witness ==
    /\ last.op = "run_once"
    /\ last.raised = "none"
    /\ agents = <<"a", "b">>
    /\ DictGet(last.was[1].state, "b").should_act = FALSE
    /\ last.arg[1].response = <<CallIncrement, SetFlag("b", TRUE)>>
    /\ last.arg[1].executed = 2
    /\ last.arg[2].stepped = TRUE
    /\ last.arg[2].response = <<SetFlag("a", FALSE)>>
    /\ DictGet(agent_state.items, "a").should_act = FALSE

C38_ToolRunsDispatchPipeline ==
    /\ (last.op = "tool_call" /\ last.arg[1].kind = "action") =>
          LET tool == last.arg[1]
              payload == last.arg[2]
              before == last.was[1].state
              treeBefore == last.was[2]
              notified == NotifySubscribers(subscribers, (1 :> 1))
          IN  IF tool.action = "increment"
              THEN /\ tree = [treeBefore EXCEPT ![L_count] = @ + payload]
                   /\ agent_state.items = before
                   /\ last.rounds = <<Round("handler", treeBefore, tree, {P_count}, subscribers)>>
                   /\ last.rounds[1].delta =
                          (L_count :> [old |-> treeBefore[L_count], new |-> tree[L_count]])
                   /\ last.rounds[1].calls = notified.calls
                   /\ last.raised = notified.raised
              ELSE /\ tree = treeBefore
                   /\ payload.agent_name \in DictKeys(before) =>
                         /\ DictGet(agent_state.items, payload.agent_name).should_act
                                = payload.should_act
                         /\ last.rounds = <<StateRound("handler", before, agent_state.items,
                                                       {P_agent_state}, subscribers)>>
                         /\ agent_state.items # before =>
                               /\ last.rounds[1].calls = notified.calls
                               /\ last.raised = notified.raised
                   /\ payload.agent_name \notin DictKeys(before) =>
                         last.raised = "KeyError" /\ agent_state.items = before
    /\ last.op = "action_to_tool" =>
          IF last.kind \in {"increment", "update_should_act"}
          THEN /\ last.raised = "none"
               /\ Len(last.arg) = 1
               /\ last.arg[1].name = (IF last.task = "" THEN last.kind ELSE last.task)
               /\ last.arg[1].action = last.kind
          ELSE last.raised = "KeyError" /\ last.arg = <<>>

\* the tool "add" made from increment was called with cb1 and cb2
\* subscribed: the counter went from 0 to 3 and both were called
C38_Witness ==
    /\ last.op = "tool_call"
    /\ last.arg[1].kind = "action"
    /\ last.arg[1].name = "add"
    /\ last.arg[1].action = "increment"
    /\ tree[L_count] = 3
    /\ last.rounds[1].calls = <<"cb1", "cb2">>

(* C39: the result on_complete receives does not depend on the order of *)
(* the resolutions: on_complete fires on the N-th accepted resolution of   *)
(* the N tasks, and its success_count, failure_count, all_succeeded and    *)
(* per-task results are those of the set of resolutions, whatever the      *)
(* order they were made in.                                                *)
C39_ResultIndependentOfOrder ==
    (last.op = "resolve" /\ last.raised = "none") =>
        LET order == fanoutLog[last.kind].order
            given == Range(order)
            names == DOMAIN last.was[1].registry[last.kind]
        IN  /\ Len(order) = Cardinality({x.task : x \in given})
            /\ {x.task : x \in given} \subseteq names
            /\ (last.completed # <<>>) <=> (Len(order) = Cardinality(names))
            /\ last.completed # <<>> =>
                  LET res == last.completed[1]
                  IN  /\ res.success_count = Cardinality({x \in given : x.success})
                      /\ res.failure_count = Cardinality({x \in given : ~x.success})
                      /\ res.all_succeeded <=> (\A x \in given : x.success)
                      /\ DOMAIN res.tasks = {x.task : x \in given}
                      /\ \A x \in given :
                            res.tasks[x.task] = [resolved |-> TRUE, success |-> x.success,
                                                 result |-> x.result]

\* b was resolved first, as a failure, and a last, as a success: the result
\* is the one of a resolved first and b last
C39_Witness ==
    /\ last.op = "resolve"
    /\ last.completed # <<>>
    /\ fanoutLog[last.kind].order = <<[task |-> "b", success |-> FALSE, result |-> "y"],
                                      [task |-> "a", success |-> TRUE, result |-> "x"]>>
    /\ last.completed[1].success_count = 1
    /\ last.completed[1].failure_count = 1
    /\ last.completed[1].all_succeeded = FALSE

(* C40: an unsubscribe handle removes the registration of its own        *)
(* subscribe call and no other: every registration whose handle has not    *)
(* been called is still in the list, so a callback subscribed twice is     *)
(* called twice per round, and once per round after one of its two handles *)
(* was called.                                                             *)
C40_HandleRemovesOwnRegistration ==
    /\ \A cb \in Callbacks : Occurrences(subscribers, cb) = handles[cb].fresh
    /\ IsDispatch =>
          \A k \in 1..Len(last.rounds) : \A cb \in Callbacks :
              (Notified(last.rounds[k]) /\ "bad" \notin Range(subscribers)) =>
                  Occurrences(last.rounds[k].calls, cb) = handles[cb].fresh

====
